---- MODULE Spec2Model ----
(***************************************************************************)
(* A model of the empradb knowledge-graph core: MathGraph (packages/graph) *)
(* and DiagnosticsEngine (packages/diagnostics), the overlays ExamEngine    *)
(* (packages/exams) and CurriculumEngine (packages/curriculum), and the    *)
(* StudyPlanner that composes them.                                        *)
(*                                                                         *)
(* A confidence c in [0,1] is held as the integer 10 * c, and clock is the *)
(* value Date.now() returns.                                               *)
(*                                                                         *)
(* JavaScript Map and Set keep insertion order, and the code iterates them *)
(* (nodes.keys(), edges.values(), a Set's forEach), so a Map is modelled   *)
(* as a sequence of entries [k, v] with distinct keys and a Set as a       *)
(* sequence without repetition.                                            *)
(***************************************************************************)
EXTENDS Integers, Sequences, FiniteSets, TLC

VARIABLES nodes, edges, reverseEdges, progress, clock, call, bfs, added,
          profiles, mappings, updates, ingestion, critical, criticalPrereqs, learner

vars == <<nodes, edges, reverseEdges, progress, clock, call, bfs, added,
          profiles, mappings, updates, ingestion, critical, criticalPrereqs, learner>>

overlays == <<profiles, mappings>>

others == <<ingestion, critical, criticalPrereqs, learner>>

diag == <<progress, clock, overlays, updates, others>>

(***************************************************************************)
(* Bounds of the model.                                                    *)
(***************************************************************************)
MaxEdges == 2
MaxLen == 2
MaxUpdates == 2
MaxTargets == 1
MaxDays == 8
MaxPath == 4
MaxSchedule == 3

Ids == {"a", "b", "c"}

(***************************************************************************)
(* Sequences.                                                              *)
(***************************************************************************)
Range(s) == {s[i] : i \in 1..Len(s)}

Includes(s, x) == \E i \in 1..Len(s) : s[i] = x

Count(s, x) == Cardinality({i \in 1..Len(s) : s[i] = x})

IndexOf(s, x) ==
  IF Includes(s, x) THEN CHOOSE i \in 1..Len(s) : s[i] = x /\ \A j \in 1..(i - 1) : s[j] # x
  ELSE 0

NoRepeat(s) == \A i, j \in 1..Len(s) : s[i] = s[j] => i = j

RECURSIVE Flat(_)
Flat(ss) == IF ss = <<>> THEN <<>> ELSE Head(ss) \o Flat(Tail(ss))

RECURSIVE SeqsUpTo(_, _)
SeqsUpTo(S, n) ==
  IF n = 0 THEN {<<>>}
  ELSE LET shorter == SeqsUpTo(S, n - 1)
       IN shorter \cup {Append(s, x) : s \in {t \in shorter : Len(t) = n - 1}, x \in S}

(***************************************************************************)
(* JavaScript Map: has, get, set, keys(), values().                        *)
(***************************************************************************)
MapKeys(m) == [i \in 1..Len(m) |-> m[i].k]

MapValues(m) == [i \in 1..Len(m) |-> m[i].v]

MapHas(m, key) == \E i \in 1..Len(m) : m[i].k = key

MapGet(m, key) == m[CHOOSE i \in 1..Len(m) : m[i].k = key].v

MapSet(m, key, val) ==
  IF MapHas(m, key)
  THEN [i \in 1..Len(m) |-> IF m[i].k = key THEN [k |-> key, v |-> val] ELSE m[i]]
  ELSE Append(m, [k |-> key, v |-> val])

(***************************************************************************)
(* JavaScript Set: has, add, delete.                                       *)
(***************************************************************************)
SetHas(s, x) == Includes(s, x)

SetAdd(s, x) == IF Includes(s, x) THEN s ELSE Append(s, x)

SetDelete(s, x) == SelectSeq(s, LAMBDA y : y # x)

RECURSIVE SetFrom(_)
SetFrom(s) == IF s = <<>> THEN <<>> ELSE SetAdd(SetFrom(SubSeq(s, 1, Len(s) - 1)), s[Len(s)])

(***************************************************************************)
(* MathGraph: the three maps of one graph object, as a record.             *)
(***************************************************************************)
NewGraph == [nodes |-> <<>>, edges |-> <<>>, reverseEdges |-> <<>>]

G == [nodes |-> nodes, edges |-> edges, reverseEdges |-> reverseEdges]

addNodeFresh(g, node) ==
  [nodes |-> MapSet(g.nodes, node.id, node),
   edges |-> MapSet(g.edges, node.id, <<>>),
   reverseEdges |-> MapSet(g.reverseEdges, node.id, <<>>)]

addNode(g, node) ==
  [nodes |-> MapSet(g.nodes, node.id, node),
   edges |-> IF MapHas(g.edges, node.id) THEN g.edges ELSE MapSet(g.edges, node.id, <<>>),
   reverseEdges |-> IF MapHas(g.reverseEdges, node.id) THEN g.reverseEdges
                    ELSE MapSet(g.reverseEdges, node.id, <<>>)]

addEdgeOnce(g, edge) ==
  LET e1 == IF MapHas(g.edges, edge.from) THEN g.edges ELSE MapSet(g.edges, edge.from, <<>>)
      r1 == IF MapHas(g.reverseEdges, edge.to) THEN g.reverseEdges
            ELSE MapSet(g.reverseEdges, edge.to, <<>>)
  IN IF Includes(MapGet(e1, edge.from), edge) THEN g
     ELSE [nodes |-> g.nodes,
           edges |-> MapSet(e1, edge.from, Append(MapGet(e1, edge.from), edge)),
           reverseEdges |-> MapSet(r1, edge.to, Append(MapGet(r1, edge.to), edge))]

addEdge(g, edge) ==
  LET e1 == IF MapHas(g.edges, edge.from) THEN g.edges ELSE MapSet(g.edges, edge.from, <<>>)
      r1 == IF MapHas(g.reverseEdges, edge.to) THEN g.reverseEdges
            ELSE MapSet(g.reverseEdges, edge.to, <<>>)
  IN [nodes |-> g.nodes,
      edges |-> MapSet(e1, edge.from, Append(MapGet(e1, edge.from), edge)),
      reverseEdges |-> MapSet(r1, edge.to, Append(MapGet(r1, edge.to), edge))]

getNode(g, id) == IF MapHas(g.nodes, id) THEN MapGet(g.nodes, id) ELSE "undefined"

getOutgoingEdges(g, nodeId) == IF MapHas(g.edges, nodeId) THEN MapGet(g.edges, nodeId) ELSE <<>>

getIncomingEdges(g, nodeId) ==
  IF MapHas(g.reverseEdges, nodeId) THEN MapGet(g.reverseEdges, nodeId) ELSE <<>>

FromOf(es) == [i \in 1..Len(es) |-> es[i].from]

ToOf(es) == [i \in 1..Len(es) |-> es[i].to]

getPrerequisites(g, nodeId) ==
  FromOf(SelectSeq(getIncomingEdges(g, nodeId), LAMBDA e : e.type = "REQUIRES"))

getDependents(g, nodeId) ==
  ToOf(SelectSeq(getOutgoingEdges(g, nodeId), LAMBDA e : e.type = "REQUIRES"))

(***************************************************************************)
(* getAllPrerequisites: s = [visited, queue, expanded] is the state of the *)
(* while loop; expanded records, in order, the IDs whose prerequisites     *)
(* were pushed (lines 61-64 ran for them).                                 *)
(***************************************************************************)
BfsStart(nodeId) == [visited |-> <<>>, queue |-> <<nodeId>>, expanded |-> <<>>]

BfsStepNoVisited(g, s) ==
  [visited |-> SetAdd(s.visited, Head(s.queue)),
   queue |-> Tail(s.queue) \o getPrerequisites(g, Head(s.queue)),
   expanded |-> Append(s.expanded, Head(s.queue))]

BfsStep(g, s) ==
  LET current == Head(s.queue)
      rest == Tail(s.queue)
  IN IF SetHas(s.visited, current)
     THEN [s EXCEPT !.queue = rest]
     ELSE [visited |-> SetAdd(s.visited, current),
           queue |-> rest \o getPrerequisites(g, current),
           expanded |-> Append(s.expanded, current)]

RECURSIVE BfsLoop(_, _)
BfsLoop(g, s) == IF s.queue = <<>> THEN s ELSE BfsLoop(g, BfsStep(g, s))

BfsResultKeepsSelf(s, nodeId) == s.visited

BfsResult(s, nodeId) == SetDelete(s.visited, nodeId)

getAllPrerequisites(g, nodeId) == BfsResult(BfsLoop(g, BfsStart(nodeId)), nodeId)

(***************************************************************************)
(* topologicalSort: st = [inDegree, graph, queue, result]; inDegree and    *)
(* graph are Maps keyed by the IDs of nodeIds in first-occurrence order.   *)
(***************************************************************************)
RECURSIVE TopoInit(_)
TopoInit(nodeIds) ==
  IF nodeIds = <<>> THEN [inDegree |-> <<>>, graph |-> <<>>]
  ELSE LET st == TopoInit(SubSeq(nodeIds, 1, Len(nodeIds) - 1))
           id == nodeIds[Len(nodeIds)]
       IN [inDegree |-> MapSet(st.inDegree, id, 0), graph |-> MapSet(st.graph, id, <<>>)]

RECURSIVE TopoAddPrereqs(_, _, _)
TopoAddPrereqs(prereqs, id, st) ==
  IF prereqs = <<>> THEN st
  ELSE LET prereq == Head(prereqs)
       IN TopoAddPrereqs(Tail(prereqs), id,
            [inDegree |-> MapSet(st.inDegree, id, MapGet(st.inDegree, id) + 1),
             graph |-> MapSet(st.graph, prereq, Append(MapGet(st.graph, prereq), id))])

TopoPrereqs(g, nodeIds, id) ==
  SelectSeq(getPrerequisites(g, id), LAMBDA p : Includes(nodeIds, p))

RECURSIVE TopoBuild(_, _, _, _)
TopoBuild(g, nodeIds, i, st) ==
  IF i > Len(nodeIds) THEN st
  ELSE TopoBuild(g, nodeIds, i + 1,
                 TopoAddPrereqs(TopoPrereqs(g, nodeIds, nodeIds[i]), nodeIds[i], st))

TopoSeedAll(inDegree) == MapKeys(inDegree)

TopoSeed(inDegree) ==
  MapKeys(SelectSeq(inDegree, LAMBDA entry : entry.v = 0))

RECURSIVE KahnRelax(_, _)
KahnRelax(neighbors, st) ==
  IF neighbors = <<>> THEN st
  ELSE LET neighbor == Head(neighbors)
           degree == MapGet(st.inDegree, neighbor) - 1
       IN KahnRelax(Tail(neighbors),
            [st EXCEPT !.inDegree = MapSet(st.inDegree, neighbor, degree),
                       !.queue = IF degree = 0 THEN Append(st.queue, neighbor) ELSE st.queue])

KahnVisitDistinct(neighbors, st) == KahnRelax(SetFrom(neighbors), st)

KahnVisit(neighbors, st) == KahnRelax(neighbors, st)

RECURSIVE KahnLoop(_)
KahnLoop(st) ==
  IF st.queue = <<>> THEN st
  ELSE LET current == Head(st.queue)
       IN KahnLoop(KahnVisit(MapGet(st.graph, current),
                             [st EXCEPT !.queue = Tail(st.queue),
                                        !.result = Append(st.result, current)]))

topologicalSort(g, nodeIds) ==
  LET built == TopoBuild(g, nodeIds, 1, TopoInit(nodeIds))
  IN KahnLoop([inDegree |-> built.inDegree, graph |-> built.graph,
               queue |-> TopoSeed(built.inDegree), result |-> <<>>]).result

(***************************************************************************)
(* detectCycles: st = [visited, recursionStack, cycles].                   *)
(***************************************************************************)
PathSlice(path, dep) ==
  LET cycleStart == IndexOf(path, dep)
  IN IF cycleStart = 0 THEN SubSeq(path, Len(path), Len(path))
     ELSE SubSeq(path, cycleStart, Len(path))

RECURSIVE dfs(_, _, _, _)
RECURSIVE DfsDeps(_, _, _, _)
dfs(g, nodeId, path0, st) ==
  LET path == Append(path0, nodeId)
      entered == [st EXCEPT !.visited = SetAdd(st.visited, nodeId),
                            !.recursionStack = SetAdd(st.recursionStack, nodeId)]
      after == DfsDeps(g, getDependents(g, nodeId), path, entered)
  IN [after EXCEPT !.recursionStack = SetDelete(after.recursionStack, nodeId)]

DfsDeps(g, deps, path, st) ==
  IF deps = <<>> THEN st
  ELSE LET dep == Head(deps)
       IN IF ~SetHas(st.visited, dep)
          THEN DfsDeps(g, Tail(deps), path, dfs(g, dep, path, st))
          ELSE IF SetHas(st.recursionStack, dep)
               THEN DfsDeps(g, Tail(deps), path,
                            [st EXCEPT !.cycles = Append(st.cycles, PathSlice(path, dep))])
               ELSE DfsDeps(g, Tail(deps), path, st)

RECURSIVE DfsRoots(_, _, _)
DfsRoots(g, roots, st) ==
  IF roots = <<>> THEN st
  ELSE IF ~SetHas(st.visited, Head(roots))
       THEN DfsRoots(g, Tail(roots), dfs(g, Head(roots), <<>>, st))
       ELSE DfsRoots(g, Tail(roots), st)

CycleRoots(g) == MapKeys(g.nodes)

detectCycles(g) ==
  DfsRoots(g, CycleRoots(g), [visited |-> <<>>, recursionStack |-> <<>>, cycles |-> <<>>]).cycles

(***************************************************************************)
(* getSubgraph.                                                            *)
(***************************************************************************)
RECURSIVE SubgraphNodes(_, _, _)
SubgraphNodes(g, nodeIds, subgraph) ==
  IF nodeIds = <<>> THEN subgraph
  ELSE SubgraphNodes(g, Tail(nodeIds),
         IF MapHas(g.nodes, Head(nodeIds)) THEN addNode(subgraph, getNode(g, Head(nodeIds)))
         ELSE subgraph)

RECURSIVE AddEdges(_, _)
AddEdges(graph, es) ==
  IF es = <<>> THEN graph ELSE AddEdges(addEdge(graph, Head(es)), Tail(es))

SubgraphSources(nodeIds) == nodeIds

RECURSIVE SubgraphEdges(_, _, _, _)
SubgraphEdges(g, ids, nodeSet, subgraph) ==
  IF ids = <<>> THEN subgraph
  ELSE SubgraphEdges(g, Tail(ids), nodeSet,
         AddEdges(subgraph,
                  SelectSeq(getOutgoingEdges(g, Head(ids)), LAMBDA e : SetHas(nodeSet, e.to))))

getSubgraph(g, nodeIds) ==
  SubgraphEdges(g, SubgraphSources(nodeIds), SetFrom(nodeIds),
                SubgraphNodes(g, nodeIds, NewGraph))

(***************************************************************************)
(* exportJSON / fromJSON. A JSON text is modelled by the value it parses   *)
(* to: JSON.stringify writes a number that is NaN as null, and JSON.parse  *)
(* reads null back as null.                                                *)
(***************************************************************************)
JsonNumber(x) == IF x = "NaN" THEN "null" ELSE x

JsonEdge(e) == [from |-> e.from, to |-> e.to, type |-> e.type, weight |-> JsonNumber(e.weight)]

JsonNode(n) == [id |-> n.id, complexity |-> n.complexity]

ExportedEdges(g) == Flat(MapValues(g.edges))

exportJSON(g) ==
  LET ns == MapValues(g.nodes)
      es == ExportedEdges(g)
  IN [nodes |-> [i \in 1..Len(ns) |-> JsonNode(ns[i])],
      edges |-> [i \in 1..Len(es) |-> JsonEdge(es[i])]]

RECURSIVE AddNodes(_, _)
AddNodes(graph, ns) ==
  IF ns = <<>> THEN graph ELSE AddNodes(addNode(graph, Head(ns)), Tail(ns))

fromJSONKnownEndpoints(json) ==
  LET withNodes == AddNodes(NewGraph, json.nodes)
  IN AddEdges(withNodes,
              SelectSeq(json.edges,
                        LAMBDA e : MapHas(withNodes.nodes, e.from) /\ MapHas(withNodes.nodes, e.to)))

fromJSON(json) == AddEdges(AddNodes(NewGraph, json.nodes), json.edges)

(***************************************************************************)
(* DiagnosticsEngine. progress is a Map from user to a Map from concept to *)
(* ConceptProgress. A Partial<ConceptProgress> is a record that has only   *)
(* the fields the caller supplied.                                         *)
(***************************************************************************)
DefaultThreshold == 7

updateProgressOverwrite(p, userId, conceptId, update, now) ==
  LET p1 == IF MapHas(p, userId) THEN p ELSE MapSet(p, userId, <<>>)
      userProgress == MapGet(p1, userId)
      hasExisting == MapHas(userProgress, conceptId)
      existing == MapGet(userProgress, conceptId)
      newProgress ==
        [user_id |-> userId,
         concept_id |-> conceptId,
         confidence |-> IF "confidence" \in DOMAIN update THEN update.confidence
                        ELSE IF hasExisting THEN existing.confidence ELSE 0,
         last_reviewed |-> IF "last_reviewed" \in DOMAIN update THEN update.last_reviewed
                           ELSE now,
         review_count |-> (IF hasExisting THEN existing.review_count ELSE 0) + 1,
         time_spent_seconds |->
           IF "time_spent_seconds" \in DOMAIN update THEN update.time_spent_seconds
           ELSE IF hasExisting THEN existing.time_spent_seconds ELSE 0]
  IN MapSet(p1, userId, MapSet(userProgress, conceptId, newProgress))

updateProgress(p, userId, conceptId, update, now) ==
  LET p1 == IF MapHas(p, userId) THEN p ELSE MapSet(p, userId, <<>>)
      userProgress == MapGet(p1, userId)
      hasExisting == MapHas(userProgress, conceptId)
      existing == MapGet(userProgress, conceptId)
      newProgress ==
        [user_id |-> userId,
         concept_id |-> conceptId,
         confidence |-> IF "confidence" \in DOMAIN update THEN update.confidence
                        ELSE IF hasExisting THEN existing.confidence ELSE 0,
         last_reviewed |-> IF "last_reviewed" \in DOMAIN update THEN update.last_reviewed
                           ELSE now,
         review_count |-> (IF hasExisting THEN existing.review_count ELSE 0) + 1,
         time_spent_seconds |->
           (IF hasExisting THEN existing.time_spent_seconds ELSE 0)
             + (IF "time_spent_seconds" \in DOMAIN update THEN update.time_spent_seconds
                ELSE 0)]
  IN MapSet(p1, userId, MapSet(userProgress, conceptId, newProgress))

HasProgress(p, userId, conceptId) ==
  MapHas(p, userId) /\ MapHas(MapGet(p, userId), conceptId)

getProgress(p, userId, conceptId) ==
  IF HasProgress(p, userId, conceptId) THEN MapGet(MapGet(p, userId), conceptId) ELSE "null"

getUserProgress(p, userId) == IF MapHas(p, userId) THEN MapValues(MapGet(p, userId)) ELSE <<>>

getConfidence(p, userId, conceptId) ==
  IF HasProgress(p, userId, conceptId) THEN getProgress(p, userId, conceptId).confidence ELSE 0

ConceptIdOf(ps) == [i \in 1..Len(ps) |-> ps[i].concept_id]

getKnownConcepts(p, userId, threshold) ==
  SetFrom(ConceptIdOf(SelectSeq(getUserProgress(p, userId),
                                LAMBDA r : r.confidence >= threshold)))

RECURSIVE SetAddAll(_, _)
SetAddAll(s, xs) == IF xs = <<>> THEN s ELSE SetAddAll(SetAdd(s, Head(xs)), Tail(xs))

RECURSIVE AllRequired(_, _, _)
AllRequired(g, targetConcepts, allRequired) ==
  IF targetConcepts = <<>> THEN allRequired
  ELSE LET conceptId == Head(targetConcepts)
       IN AllRequired(g, Tail(targetConcepts),
                      SetAdd(SetAddAll(allRequired, getAllPrerequisites(g, conceptId)),
                             conceptId))

StrongPrereqsWithTargets(allRequired, known, targetConcepts) ==
  SelectSeq(allRequired, LAMBDA id : SetHas(known, id))

StrongPrereqs(allRequired, known, targetConcepts) ==
  SelectSeq(allRequired, LAMBDA id : SetHas(known, id) /\ ~Includes(targetConcepts, id))

detectGaps(p, userId, g, targetConcepts, confidenceThreshold) ==
  LET known == getKnownConcepts(p, userId, confidenceThreshold)
      allRequired == AllRequired(g, targetConcepts, <<>>)
  IN [missing |-> SelectSeq(allRequired, LAMBDA c : getConfidence(p, userId, c) = 0),
      weak |-> SelectSeq(allRequired,
                         LAMBDA c : /\ getConfidence(p, userId, c) # 0
                                    /\ getConfidence(p, userId, c) < confidenceThreshold),
      strongPrereqs |-> StrongPrereqs(allRequired, known, targetConcepts)]

(***************************************************************************)
(* generateStudyPath. With confidence k/10 and complexity c the time of a  *)
(* concept, 0.5 * (1 + c/10) * (1 - (k/10) * 0.5), is (10 + c)(20 - k)/400 *)
(* hours: totalHours is summed in units of 1/400 hour.                     *)
(***************************************************************************)
HoursUnit == 400

RECURSIVE ConfidenceMap(_, _, _)
ConfidenceMap(p, userId, ordered) ==
  IF ordered = <<>> THEN <<>>
  ELSE MapSet(ConfidenceMap(p, userId, SubSeq(ordered, 1, Len(ordered) - 1)),
              ordered[Len(ordered)], getConfidence(p, userId, ordered[Len(ordered)]))

RECURSIVE TotalHours(_, _, _)
TotalHours(g, confidenceMap, ordered) ==
  IF ordered = <<>> THEN 0
  ELSE LET conceptId == Head(ordered)
           node == getNode(g, conceptId)
       IN (IF MapHas(g.nodes, conceptId)
           THEN (10 + node.complexity) * (20 - MapGet(confidenceMap, conceptId))
           ELSE 0)
          + TotalHours(g, confidenceMap, Tail(ordered))

Floor(n, unit) == n \div unit

Ceil(n, unit) == (n + unit - 1) \div unit

StudyOrderUnsorted(g, toStudy) == toStudy

StudyOrderDropsFirst(g, toStudy) ==
  topologicalSort(g, IF toStudy = <<>> THEN <<>> ELSE Tail(toStudy))

StudyOrder(g, toStudy) == topologicalSort(g, toStudy)

generateStudyPath(p, userId, g, targetConcepts, timeRemainingDays) ==
  LET gaps == detectGaps(p, userId, g, targetConcepts, DefaultThreshold)
      toStudy == gaps.missing \o gaps.weak
      ordered == StudyOrder(g, toStudy)
      confidenceMap == ConfidenceMap(p, userId, ordered)
  IN [user_id |-> userId,
      time_remaining_days |-> timeRemainingDays,
      ordered_concepts |-> ordered,
      confidence_map |-> confidenceMap,
      gaps |-> gaps.missing,
      estimated_total_hours |-> Ceil(TotalHours(g, confidenceMap, ordered), HoursUnit)]

(***************************************************************************)
(* recommendNextConcepts. A candidate is [id, priority]; with confidence   *)
(* k/10 the priority (1 - confidence) * 10 is 10 - k. Array.prototype.sort *)
(* is stable: candidates of equal priority keep their order. limit is a    *)
(* count (0, 1, 2, ...), and slice(0, limit) keeps the first limit         *)
(* elements.                                                               *)
(***************************************************************************)
RecommendDays == 30

DefaultLimit == 5

Priority(p, userId, conceptId) == 10 - getConfidence(p, userId, conceptId)

PrereqsMetNoPrereqs(g, known, conceptId) == getPrerequisites(g, conceptId) = <<>>

PrereqsMet(g, known, conceptId) ==
  \A i \in 1..Len(getPrerequisites(g, conceptId)) :
    SetHas(known, getPrerequisites(g, conceptId)[i])

Candidates(p, userId, g, known, ordered) ==
  LET kept == SelectSeq(ordered,
                        LAMBDA c : ~SetHas(known, c) /\ PrereqsMet(g, known, c))
  IN [i \in 1..Len(kept) |-> [id |-> kept[i], priority |-> Priority(p, userId, kept[i])]]

InsertByPriority(sorted, c) ==
  LET before == SelectSeq(sorted, LAMBDA x : x.priority >= c.priority)
      after == SelectSeq(sorted, LAMBDA x : x.priority < c.priority)
  IN before \o <<c>> \o after

SortUnsorted(candidates) == candidates

RECURSIVE SortByPriority(_)
SortByPriority(candidates) ==
  IF candidates = <<>> THEN <<>>
  ELSE InsertByPriority(SortByPriority(SubSeq(candidates, 1, Len(candidates) - 1)),
                        candidates[Len(candidates)])

Slice(s, limit) == SubSeq(s, 1, IF limit < Len(s) THEN limit ELSE Len(s))

IdOf(cs) == [i \in 1..Len(cs) |-> cs[i].id]

recommendNextConcepts(p, userId, g, targetConcepts, limit) ==
  LET known == getKnownConcepts(p, userId, DefaultThreshold)
      studyPath == generateStudyPath(p, userId, g, targetConcepts, RecommendDays)
      candidates == Candidates(p, userId, g, known, studyPath.ordered_concepts)
  IN IdOf(Slice(SortByPriority(candidates), limit))

(***************************************************************************)
(* needsReview. now is what Date.now() returns, in milliseconds;           *)
(* (now - last_reviewed) / DayMs >= days is compared without dividing.     *)
(***************************************************************************)
DayMs == 1000 * 60 * 60 * 24

DefaultReviewDays == 7

needsReviewAnyConfidence(p, userId, conceptId, daysSinceLastReview, now) ==
  LET prog == getProgress(p, userId, conceptId)
  IN IF ~HasProgress(p, userId, conceptId) THEN FALSE
     ELSE now - prog.last_reviewed >= daysSinceLastReview * DayMs

needsReview(p, userId, conceptId, daysSinceLastReview, now) ==
  LET prog == getProgress(p, userId, conceptId)
  IN IF ~HasProgress(p, userId, conceptId) \/ prog.confidence = 0 THEN FALSE
     ELSE now - prog.last_reviewed >= daysSinceLastReview * DayMs

(***************************************************************************)
(* ExamEngine. profiles is a Map from exam ID to ExamProfile. A profile    *)
(* that is not there is undefined; the code tests it with !profile before  *)
(* any use.                                                                *)
(***************************************************************************)
addProfile(ps, profile) == MapSet(ps, profile.id, profile)

getProfile(ps, examId) == IF MapHas(ps, examId) THEN MapGet(ps, examId) ELSE "undefined"

PrereqsOfAll(g, conceptSet) ==
  SetFrom(Flat([i \in 1..Len(conceptSet) |-> getAllPrerequisites(g, conceptSet[i])]))

FilteredNone(conceptSet, excluded) == conceptSet

Filtered(conceptSet, excluded) == SelectSeq(conceptSet, LAMBDA id : ~Includes(excluded, id))

getExamSubgraph(ps, g, examId, includeOptional) ==
  IF ~MapHas(ps, examId) THEN NewGraph
  ELSE LET profile == getProfile(ps, examId)
           conceptSet == SetAddAll(SetFrom(profile.required_concepts),
                                   IF includeOptional THEN profile.optional_concepts ELSE <<>>)
           allPrereqs == PrereqsOfAll(g, conceptSet)
       IN getSubgraph(g, Filtered(SetAddAll(conceptSet, allPrereqs),
                                  profile.excluded_concepts))

NoStudyPlan ==
  [ordered |-> <<>>, required |-> <<>>, optional |-> <<>>, gaps |-> <<>>, totalConcepts |-> 0]

getStudyPlan(ps, g, examId, knownConcepts, includeOptional) ==
  IF ~MapHas(ps, examId) THEN NoStudyPlan
  ELSE LET profile == getProfile(ps, examId)
           requiredSet == SetFrom(profile.required_concepts)
           optionalSet == SetFrom(profile.optional_concepts)
           allConcepts == SetAddAll(requiredSet,
                                    IF includeOptional THEN profile.optional_concepts ELSE <<>>)
           allPrereqs == Filtered(PrereqsOfAll(g, allConcepts), profile.excluded_concepts)
           studySet == SetAddAll(allConcepts, allPrereqs)
           toStudy == SelectSeq(studySet, LAMBDA id : ~SetHas(knownConcepts, id))
           ordered == topologicalSort(g, toStudy)
       IN [ordered |-> ordered,
           required |-> SelectSeq(ordered, LAMBDA id : SetHas(requiredSet, id)),
           optional |-> SelectSeq(ordered, LAMBDA id : SetHas(optionalSet, id)),
           gaps |-> SelectSeq(ordered, LAMBDA id : /\ ~SetHas(requiredSet, id)
                                                    /\ ~SetHas(optionalSet, id)),
           totalConcepts |-> Len(ordered)]

(***************************************************************************)
(* estimateExamReadiness. A coverage is a percentage rounded to one        *)
(* decimal, held in tenths of a percent.                                   *)
(***************************************************************************)
Coverage(concepts, missing) ==
  IF Len(concepts) > 0
  THEN (2000 * (Len(concepts) - Len(missing)) + Len(concepts)) \div (2 * Len(concepts))
  ELSE 1000

estimateExamReadinessVacuous(ps, examId, knownConcepts) ==
  LET profile == IF MapHas(ps, examId) THEN getProfile(ps, examId)
                 ELSE [required_concepts |-> <<>>, optional_concepts |-> <<>>]
      missingRequired ==
        SelectSeq(profile.required_concepts, LAMBDA c : ~SetHas(knownConcepts, c))
      missingOptional ==
        SelectSeq(profile.optional_concepts, LAMBDA c : ~SetHas(knownConcepts, c))
  IN [requiredCoverage |-> Coverage(profile.required_concepts, missingRequired),
      optionalCoverage |-> Coverage(profile.optional_concepts, missingOptional),
      missingRequired |-> missingRequired,
      missingOptional |-> missingOptional]

estimateExamReadiness(ps, examId, knownConcepts) ==
  IF ~MapHas(ps, examId)
  THEN [requiredCoverage |-> 0, optionalCoverage |-> 0,
        missingRequired |-> <<>>, missingOptional |-> <<>>]
  ELSE LET profile == getProfile(ps, examId)
           missingRequired ==
             SelectSeq(profile.required_concepts, LAMBDA c : ~SetHas(knownConcepts, c))
           missingOptional ==
             SelectSeq(profile.optional_concepts, LAMBDA c : ~SetHas(knownConcepts, c))
       IN [requiredCoverage |-> Coverage(profile.required_concepts, missingRequired),
           optionalCoverage |-> Coverage(profile.optional_concepts, missingOptional),
           missingRequired |-> missingRequired,
           missingOptional |-> missingOptional]

(***************************************************************************)
(* CurriculumEngine. mappings is a Map from the key `${system}:${year}`,   *)
(* held as the pair <<system, year>>, to CurriculumMapping.                *)
(***************************************************************************)
getMappingKey(system, yearLevel) == <<system, yearLevel>>

addMapping(ms, mapping) ==
  MapSet(ms, getMappingKey(mapping.system, mapping.year_level), mapping)

HasMapping(ms, system, yearLevel) == MapHas(ms, getMappingKey(system, yearLevel))

getMapping(ms, system, yearLevel) ==
  IF HasMapping(ms, system, yearLevel) THEN MapGet(ms, getMappingKey(system, yearLevel))
  ELSE "undefined"

getCurriculumSubgraph(ms, g, system, yearLevel, includePrerequisites) ==
  IF ~HasMapping(ms, system, yearLevel) THEN NewGraph
  ELSE LET mapping == getMapping(ms, system, yearLevel)
           conceptSet == SetFrom(mapping.concepts)
           allPrereqs == PrereqsOfAll(g, mapping.concepts)
           withPrereqs == IF includePrerequisites THEN SetAddAll(conceptSet, allPrereqs)
                          ELSE conceptSet
       IN getSubgraph(g, Filtered(withPrereqs, mapping.excluded_concepts))

(***************************************************************************)
(* StudyPlanner.optimizeStudyOrder. Array.prototype.sort is stable; with a *)
(* comparator that puts weak before not weak and calls everything else     *)
(* equal, it returns the weak elements in their order followed by the      *)
(* others in theirs.                                                       *)
(***************************************************************************)
PlannerThreshold == 7

WeakConcepts(p, userId, targetConcepts) ==
  SetFrom(SelectSeq(targetConcepts,
                    LAMBDA c : /\ getConfidence(p, userId, c) > 0
                               /\ getConfidence(p, userId, c) < PlannerThreshold))

PlannerRequired(g, targetConcepts) ==
  SetAddAll(SetFrom(targetConcepts),
            Flat([i \in 1..Len(targetConcepts) |->
                    getAllPrerequisites(g, targetConcepts[i])]))

PlannerToStudy(p, userId, g, targetConcepts) ==
  LET knownConcepts == getKnownConcepts(p, userId, PlannerThreshold)
  IN SelectSeq(PlannerRequired(g, targetConcepts), LAMBDA c : ~SetHas(knownConcepts, c))

WeakFirst(ordered, weakConcepts) ==
  SelectSeq(ordered, LAMBDA a : SetHas(weakConcepts, a))
    \o SelectSeq(ordered, LAMBDA a : ~SetHas(weakConcepts, a))

optimizeStudyOrder(p, userId, g, targetConcepts, prioritizeWeakPrereqs) ==
  LET weakConcepts == WeakConcepts(p, userId, targetConcepts)
      ordered == topologicalSort(g, PlannerToStudy(p, userId, g, targetConcepts))
  IN IF prioritizeWeakPrereqs THEN WeakFirst(ordered, weakConcepts) ELSE ordered

(***************************************************************************)
(* MathIngestionEngine (scripts/ingest_math.ts): the statistics a new     *)
(* engine starts with. ingestion is the run of the ingest script: its      *)
(* arguments, the files and the records of the current file still to be    *)
(* read, the engine's statistics and the node files written so far.        *)
(***************************************************************************)
NodeTypes == {"concept", "formula", "theorem", "definition", "identity", "proof", "symbol"}

NewStats ==
  [totalProcessed |-> 0, successful |-> 0, failed |-> 0, byType |-> [t \in NodeTypes |-> 0]]

NoRun ==
  [status |-> "idle", args |-> <<>>, files |-> <<>>, format |-> "none", records |-> <<>>,
   stats |-> NewStats, saved |-> <<>>]

(***************************************************************************)
(* The calls made on the graph. The program is single-threaded: a call     *)
(* runs to its end before the next one starts. call holds the query that   *)
(* returned last with what it returned, until the caller drops the result  *)
(* (Discard); the next call is made after that. added counts, per edge,    *)
(* the addEdge calls the current graph object has received, and updates    *)
(* lists, per (user, concept), the updates passed to updateProgress.       *)
(***************************************************************************)
Idle == [op |-> "idle"]

NoBfs == [active |-> FALSE]

NoCritical == [active |-> FALSE]

NoLearner == [phase |-> "idle"]

Complexities == {5}

NodeInputs == {[id |-> i, complexity |-> c] : i \in Ids, c \in Complexities}

Edge(f, t, ty, w) == [from |-> f, to |-> t, type |-> ty, weight |-> w]

EdgeInputs ==
  {Edge(f, t, "REQUIRES", "1") : f \in Ids, t \in Ids}
    \cup {Edge("b", "a", "USED_IN", "1"), Edge("a", "b", "REQUIRES", "NaN")}

ListInputs == SeqsUpTo(Ids, MaxLen)

EdgeCount(g) == Len(Flat(MapValues(g.edges)))

BagCount(b, e) == IF e \in DOMAIN b THEN b[e] ELSE 0

BagAdd(b, e) == IF e \in DOMAIN b THEN [b EXCEPT ![e] = @ + 1] ELSE b @@ (e :> 1)

RECURSIVE BagOf(_)
BagOf(es) == IF es = <<>> THEN <<>> ELSE BagAdd(BagOf(Tail(es)), Head(es))

Init ==
  /\ nodes = <<>>
  /\ edges = <<>>
  /\ reverseEdges = <<>>
  /\ progress = <<>>
  /\ clock = 0
  /\ call = Idle
  /\ bfs = NoBfs
  /\ added = <<>>
  /\ profiles = <<>>
  /\ mappings = <<>>
  /\ updates = <<>>
  /\ ingestion = NoRun
  /\ critical = NoCritical
  /\ criticalPrereqs = <<>>
  /\ learner = NoLearner

SetGraph(g) ==
  /\ nodes' = g.nodes
  /\ edges' = g.edges
  /\ reverseEdges' = g.reverseEdges

GraphCleared == SetGraph(NewGraph) /\ UNCHANGED added

SameGraph == UNCHANGED <<nodes, edges, reverseEdges, added>>

Ready == call = Idle /\ ~bfs.active /\ ~critical.active

Query(op, arg, ret) ==
  /\ Ready
  /\ call' = [op |-> op, arg |-> arg, ret |-> ret]
  /\ SameGraph
  /\ UNCHANGED <<diag, bfs>>

AddNode(node) ==
  /\ Ready
  /\ SetGraph(addNode(G, node))
  /\ UNCHANGED <<diag, call, bfs, added>>

AddEdge(edge) ==
  /\ Ready
  /\ EdgeCount(G) < MaxEdges
  /\ SetGraph(addEdge(G, edge))
  /\ added' = BagAdd(added, edge)
  /\ UNCHANGED <<diag, call, bfs>>

GetAllPrerequisitesCall(nodeId) ==
  /\ Ready
  /\ bfs' = [active |-> TRUE, nodeId |-> nodeId, loop |-> BfsStart(nodeId)]
  /\ SameGraph
  /\ UNCHANGED <<diag, call>>

GetAllPrerequisitesLoop ==
  /\ bfs.active
  /\ bfs.loop.queue # <<>>
  /\ bfs' = [bfs EXCEPT !.loop = BfsStep(G, bfs.loop)]
  /\ SameGraph
  /\ UNCHANGED <<diag, call>>

GetAllPrerequisitesReturn ==
  /\ bfs.active
  /\ bfs.loop.queue = <<>>
  /\ call' = [op |-> "getAllPrerequisites", arg |-> bfs.nodeId,
              ret |-> BfsResult(bfs.loop, bfs.nodeId), expanded |-> bfs.loop.expanded]
  /\ bfs' = NoBfs
  /\ SameGraph
  /\ UNCHANGED diag

DetectCycles == Query("detectCycles", "none", detectCycles(G))

ExportJSON == Query("exportJSON", "none", exportJSON(G))

FromJSON ==
  /\ ~bfs.active
  /\ call.op = "exportJSON"
  /\ SetGraph(fromJSON(call.ret))
  /\ added' = BagOf(call.ret.edges)
  /\ call' = [op |-> "fromJSON", arg |-> call.ret, ret |-> fromJSON(call.ret)]
  /\ UNCHANGED <<diag, bfs>>

Discard ==
  /\ call # Idle
  /\ call' = Idle
  /\ SameGraph
  /\ UNCHANGED <<diag, bfs>>

TopologicalSort(nodeIds) == Query("topologicalSort", nodeIds, topologicalSort(G, nodeIds))

GetSubgraph(nodeIds) == Query("getSubgraph", nodeIds, getSubgraph(G, nodeIds))

SubsetEdges ==
  {Edge("a", "a", "REQUIRES", "1"), Edge("a", "b", "REQUIRES", "1"),
   Edge("b", "a", "REQUIRES", "1"), Edge("b", "c", "REQUIRES", "1"),
   Edge("a", "b", "USED_IN", "1")}

Build ==
  \/ \E node \in NodeInputs : AddNode(node)
  \/ \E edge \in EdgeInputs : AddEdge(edge)

BuildSubset ==
  \/ \E node \in NodeInputs : AddNode(node)
  \/ \E edge \in SubsetEdges : AddEdge(edge)

Next ==
  \/ Build
  \/ \E nodeId \in Ids : GetAllPrerequisitesCall(nodeId)
  \/ GetAllPrerequisitesLoop
  \/ GetAllPrerequisitesReturn
  \/ DetectCycles
  \/ ExportJSON
  \/ FromJSON
  \/ Discard

Spec == Init /\ [][Next]_vars

NextSubset ==
  \/ BuildSubset
  \/ \E nodeIds \in ListInputs : TopologicalSort(nodeIds)
  \/ \E nodeIds \in ListInputs : GetSubgraph(nodeIds)
  \/ Discard

SpecSubset == Init /\ [][NextSubset]_vars

Users == {"u1"}

DiagNodes == {[id |-> "b", complexity |-> c] : c \in Complexities}

DiagEdges ==
  {Edge("a", "b", "REQUIRES", "1"), Edge("b", "c", "REQUIRES", "1"),
   Edge("b", "a", "REQUIRES", "1")}

DiagUpdates == {[confidence |-> c] : c \in {0, 5, 7}}

Thresholds == {0, DefaultThreshold}

DaysInputs == {30}

StudiedIds == {"a", "b"}

TargetInputs == SeqsUpTo(Ids, MaxTargets)

RECURSIVE SumReviews(_)
SumReviews(records) ==
  IF records = <<>> THEN 0 ELSE Head(records).review_count + SumReviews(Tail(records))

AllRecords(p) == Flat([i \in 1..Len(p) |-> MapValues(p[i].v)])

ReviewTotal(p) == SumReviews(AllRecords(p))

UpdatesOf(log, userId, conceptId) ==
  IF <<userId, conceptId>> \in DOMAIN log THEN log[<<userId, conceptId>>] ELSE <<>>

UpdateProgress(userId, conceptId, update) ==
  /\ Ready
  /\ ReviewTotal(progress) < MaxUpdates
  /\ progress' = updateProgress(progress, userId, conceptId, update, clock)
  /\ updates' = (<<userId, conceptId>> :> Append(UpdatesOf(updates, userId, conceptId), update))
                   @@ updates
  /\ UNCHANGED <<nodes, edges, reverseEdges, added, clock, call, bfs, overlays, others>>

DetectGaps(userId, targetConcepts, confidenceThreshold) ==
  Query("detectGaps",
        [userId |-> userId, targetConcepts |-> targetConcepts,
         confidenceThreshold |-> confidenceThreshold],
        detectGaps(progress, userId, G, targetConcepts, confidenceThreshold))

GenerateStudyPath(userId, targetConcepts, timeRemainingDays) ==
  Query("generateStudyPath",
        [userId |-> userId, targetConcepts |-> targetConcepts,
         timeRemainingDays |-> timeRemainingDays],
        generateStudyPath(progress, userId, G, targetConcepts, timeRemainingDays))

BuildDiag ==
  \/ \E node \in DiagNodes : AddNode(node)
  \/ \E edge \in DiagEdges : AddEdge(edge)

NextDiag ==
  \/ BuildDiag
  \/ \E userId \in Users, conceptId \in StudiedIds, update \in DiagUpdates :
       UpdateProgress(userId, conceptId, update)
  \/ \E userId \in Users, targetConcepts \in TargetInputs, threshold \in Thresholds :
       DetectGaps(userId, targetConcepts, threshold)
  \/ \E userId \in Users, targetConcepts \in TargetInputs, days \in DaysInputs :
       GenerateStudyPath(userId, targetConcepts, days)
  \/ Discard

SpecDiag == Init /\ [][NextDiag]_vars

NextBfs ==
  \/ BuildSubset
  \/ \E nodeId \in Ids : GetAllPrerequisitesCall(nodeId)
  \/ GetAllPrerequisitesLoop
  \/ GetAllPrerequisitesReturn
  \/ Discard

(***************************************************************************)
(* getAllPrerequisites is synchronous: once called, its loop keeps running *)
(* until the queue is empty and then returns.                              *)
(***************************************************************************)
SpecBfs ==
  /\ Init
  /\ [][NextBfs]_vars
  /\ WF_vars(GetAllPrerequisitesLoop)
  /\ WF_vars(GetAllPrerequisitesReturn)

(***************************************************************************)
(* StudyPlanner.generateExamStudyPath and generateCurriculumStudyPath:     *)
(* null without a profile or a mapping, else the path generateStudyPath    *)
(* returns with the three fields that name the exam or the curriculum.     *)
(***************************************************************************)
PathFor(path, targetExam, curriculumSystem, yearLevel) ==
  path @@ [target_exam |-> targetExam, curriculum |-> curriculumSystem,
           year_level |-> yearLevel]

generateExamStudyPath(ps, p, userId, g, examId, timeRemainingDays, includeOptional) ==
  IF ~MapHas(ps, examId) THEN "null"
  ELSE LET examProfile == getProfile(ps, examId)
           knownConcepts == getKnownConcepts(p, userId, PlannerThreshold)
           studyPlan == getStudyPlan(ps, g, examId, knownConcepts, includeOptional)
       IN PathFor(generateStudyPath(p, userId, g, studyPlan.ordered, timeRemainingDays),
                  examId, examProfile.system, examProfile.year_level)

generateCurriculumStudyPath(ms, p, userId, g, system, yearLevel, timeRemainingDays) ==
  IF ~HasMapping(ms, system, yearLevel) THEN "null"
  ELSE LET mapping == getMapping(ms, system, yearLevel)
           knownConcepts == getKnownConcepts(p, userId, PlannerThreshold)
           toStudy == SelectSeq(mapping.concepts, LAMBDA c : ~SetHas(knownConcepts, c))
       IN PathFor(generateStudyPath(p, userId, g, toStudy, timeRemainingDays),
                  <<system, "_year", yearLevel>>, system, yearLevel)

(***************************************************************************)
(* StudyPlanner.identifyCriticalPath. Waves is the depth the while loop    *)
(* counts for one target: one for every round in which the current set     *)
(* has a direct prerequisite.                                              *)
(***************************************************************************)
RECURSIVE Waves(_, _)
Waves(g, current) ==
  IF current = <<>> THEN 0
  ELSE LET next == SetFrom(Flat([i \in 1..Len(current) |-> getPrerequisites(g, current[i])]))
       IN (IF Len(next) > 0 THEN 1 ELSE 0) + Waves(g, next)

RECURSIVE MaxDepth(_, _)
MaxDepth(g, targetConcepts) ==
  IF targetConcepts = <<>> THEN 0
  ELSE LET depth == Waves(g, <<targetConcepts[Len(targetConcepts)]>>)
           maxDepth == MaxDepth(g, SubSeq(targetConcepts, 1, Len(targetConcepts) - 1))
       IN IF depth > maxDepth THEN depth ELSE maxDepth

identifyCriticalPath(g, targetConcepts) ==
  LET allPrereqs == PrereqsOfAll(g, targetConcepts)
  IN [criticalConcepts |-> topologicalSort(g, targetConcepts \o allPrereqs),
      depth |-> MaxDepth(g, targetConcepts),
      totalPrerequisites |-> Len(allPrereqs)]

(***************************************************************************)
(* StudyPlanner.estimateDailyLoad. dailyHours is reported in tenths of an  *)
(* hour: Math.round(x * 10) / 10 with x = totalHours / days is the integer *)
(* nearest to 10 * totalHours / days, halves going up. maxDailyHours is in *)
(* whole hours.                                                            *)
(***************************************************************************)
DefaultMaxDailyHours == 2

WeekDays == 7

RoundTenth(totalHours, days) == (20 * totalHours + days) \div (2 * days)

FeasibleRounded(totalHours, days, maxDailyHours) ==
  RoundTenth(totalHours, days) <= 10 * maxDailyHours

Feasible(totalHours, days, maxDailyHours) == totalHours <= maxDailyHours * days

estimateDailyLoad(studyPath, maxDailyHours) ==
  LET totalHours == studyPath.estimated_total_hours
      days == studyPath.time_remaining_days
  IN [dailyHours |-> RoundTenth(totalHours, days),
      conceptsPerDay |-> Ceil(Len(studyPath.ordered_concepts), days),
      weeksRequired |-> Ceil(days, WeekDays),
      feasible |-> Feasible(totalHours, days, maxDailyHours)]

(***************************************************************************)
(* StudyPlanner.suggestReviewSchedule. A date is held in milliseconds;     *)
(* setDate(getDate() + day) moves it day calendar days on.                 *)
(***************************************************************************)
ConceptsPerSessionFloor(n, days) == Floor(n, days)

ConceptsPerSession(n, days) == Ceil(n, days)

ScheduleEntry(studyPath, conceptsPerSession, day, startDate) ==
  LET startIdx == day * conceptsPerSession
      endIdx == IF startIdx + conceptsPerSession < Len(studyPath.ordered_concepts)
                THEN startIdx + conceptsPerSession
                ELSE Len(studyPath.ordered_concepts)
  IN [date |-> startDate + day * DayMs,
      concepts |-> SubSeq(studyPath.ordered_concepts, startIdx + 1, endIdx)]

suggestReviewSchedule(userId, studyPath, now) ==
  LET conceptsPerSession ==
        ConceptsPerSession(Len(studyPath.ordered_concepts), studyPath.time_remaining_days)
      entries == [d \in 1..studyPath.time_remaining_days |->
                    ScheduleEntry(studyPath, conceptsPerSession, d - 1, now)]
  IN SelectSeq(entries, LAMBDA e : Len(e.concepts) > 0)

(***************************************************************************)
(* The calls made on a StudyPlanner over the graph and the diagnostics.    *)
(***************************************************************************)
OptimizeStudyOrder(userId, targetConcepts, prioritizeWeakPrereqs) ==
  Query("optimizeStudyOrder",
        [userId |-> userId, targetConcepts |-> targetConcepts,
         prioritizeWeakPrereqs |-> prioritizeWeakPrereqs],
        optimizeStudyOrder(progress, userId, G, targetConcepts, prioritizeWeakPrereqs))

NextPlanner ==
  \/ BuildDiag
  \/ \E userId \in Users, conceptId \in StudiedIds, update \in DiagUpdates :
       UpdateProgress(userId, conceptId, update)
  \/ \E userId \in Users, targetConcepts \in TargetInputs, prioritize \in BOOLEAN :
       OptimizeStudyOrder(userId, targetConcepts, prioritize)
  \/ Discard

SpecPlanner == Init /\ [][NextPlanner]_vars

(***************************************************************************)
(* The calls that advise a user: here two concepts have no prerequisite    *)
(* and the nodes differ in complexity.                                     *)
(***************************************************************************)
AdviceNodes == {[id |-> "a", complexity |-> 0], [id |-> "c", complexity |-> 10]}

AdviceEdges ==
  {Edge("a", "c", "REQUIRES", "1"), Edge("b", "c", "REQUIRES", "1")}

AdviceUpdates == {[confidence |-> c] : c \in {3, 5, 7}}

AdviceTargets == {<<>>, <<"c">>, <<"b", "a">>}

LimitInputs == {0, 1, DefaultLimit}

RecommendNextConcepts(userId, targetConcepts, limit) ==
  Query("recommendNextConcepts",
        [userId |-> userId, targetConcepts |-> targetConcepts, limit |-> limit],
        recommendNextConcepts(progress, userId, G, targetConcepts, limit))

BuildAdvice ==
  \/ \E node \in AdviceNodes : AddNode(node)
  \/ \E edge \in AdviceEdges : AddEdge(edge)

NextAdvice ==
  \/ BuildAdvice
  \/ \E userId \in Users, conceptId \in StudiedIds, update \in AdviceUpdates :
       UpdateProgress(userId, conceptId, update)
  \/ \E userId \in Users, targetConcepts \in AdviceTargets, limit \in LimitInputs :
       RecommendNextConcepts(userId, targetConcepts, limit)
  \/ \E userId \in Users, targetConcepts \in AdviceTargets, days \in DaysInputs :
       GenerateStudyPath(userId, targetConcepts, days)
  \/ Discard

SpecAdvice == Init /\ [][NextAdvice]_vars

(***************************************************************************)
(* The calls a StudyPlanner answers from a StudyPath alone. A StudyPath is *)
(* given by the caller: the fields these calls read are drawn from small   *)
(* sets, with whole numbers of days and of hours.                          *)
(***************************************************************************)
StudyPathOf(ordered, days, hours) ==
  [user_id |-> "u1", time_remaining_days |-> days, ordered_concepts |-> ordered,
   estimated_total_hours |-> hours]

SchedulePaths ==
  {StudyPathOf(ordered, days, 1) : ordered \in SeqsUpTo(Ids, MaxPath), days \in 1..MaxSchedule}

LoadPaths ==
  {StudyPathOf(<<"a", "b", "c">>, days, hours) :
     days \in {1, 21, 30}, hours \in {0, 1, 2, 3, 42, 43, 44, 60, 61, 90}}

CeilingInputs == {1, DefaultMaxDailyHours}

EstimateDailyLoad(studyPath, maxDailyHours) ==
  Query("estimateDailyLoad", [studyPath |-> studyPath, maxDailyHours |-> maxDailyHours],
        estimateDailyLoad(studyPath, maxDailyHours))

SuggestReviewSchedule(userId, studyPath) ==
  Query("suggestReviewSchedule", [userId |-> userId, studyPath |-> studyPath],
        suggestReviewSchedule(userId, studyPath, clock))

NextLoad ==
  \/ \E studyPath \in LoadPaths, maxDailyHours \in CeilingInputs :
       EstimateDailyLoad(studyPath, maxDailyHours)
  \/ \E userId \in Users, studyPath \in SchedulePaths :
       SuggestReviewSchedule(userId, studyPath)
  \/ Discard

SpecLoad == Init /\ [][NextLoad]_vars

(***************************************************************************)
(* Reviews over time: between two calls the clock may advance by a day.    *)
(***************************************************************************)
ReviewUpdates ==
  {[confidence |-> 5], [confidence |-> 0], [confidence |-> 5, last_reviewed |-> 1]}

ReviewDays == {1, DefaultReviewDays}

Tick ==
  /\ Ready
  /\ clock < MaxDays * DayMs
  /\ clock' = clock + DayMs
  /\ SameGraph
  /\ UNCHANGED <<progress, overlays, updates, call, bfs, others>>

NeedsReview(userId, conceptId, daysSinceLastReview) ==
  Query("needsReview",
        [userId |-> userId, conceptId |-> conceptId,
         daysSinceLastReview |-> daysSinceLastReview],
        needsReview(progress, userId, conceptId, daysSinceLastReview, clock))

NextReview ==
  \/ Tick
  \/ \E userId \in Users, conceptId \in StudiedIds, update \in ReviewUpdates :
       UpdateProgress(userId, conceptId, update)
  \/ \E userId \in Users, conceptId \in StudiedIds, days \in ReviewDays :
       NeedsReview(userId, conceptId, days)
  \/ Discard

SpecReview == Init /\ [][NextReview]_vars

(***************************************************************************)
(* The calls made on a DiagnosticsEngine alone, by two users.              *)
(***************************************************************************)
ProgressUsers == {"u1", "u2"}

ProgressUpdates ==
  {<<>>, [confidence |-> 5], [confidence |-> 0, time_spent_seconds |-> 2],
   [time_spent_seconds |-> 3], [last_reviewed |-> 1]}

GetProgress(userId, conceptId) ==
  Query("getProgress", [userId |-> userId, conceptId |-> conceptId],
        getProgress(progress, userId, conceptId))

GetConfidence(userId, conceptId) ==
  Query("getConfidence", [userId |-> userId, conceptId |-> conceptId],
        getConfidence(progress, userId, conceptId))

NextProgress ==
  \/ \E userId \in ProgressUsers, conceptId \in StudiedIds, update \in ProgressUpdates :
       UpdateProgress(userId, conceptId, update)
  \/ \E userId \in ProgressUsers, conceptId \in StudiedIds : GetProgress(userId, conceptId)
  \/ \E userId \in ProgressUsers, conceptId \in StudiedIds : GetConfidence(userId, conceptId)
  \/ Discard

SpecProgress == Init /\ [][NextProgress]_vars

(***************************************************************************)
(* The whole core: one graph, one ExamEngine, one CurriculumEngine, one    *)
(* DiagnosticsEngine and the StudyPlanner over them. b is never added as a *)
(* node, exam e2 and year 12 are never registered.                         *)
(***************************************************************************)
OverlayNodes == {[id |-> i, complexity |-> c] : i \in {"a", "c"}, c \in Complexities}

OverlayEdges == {Edge("a", "b", "REQUIRES", "1"), Edge("b", "c", "REQUIRES", "1")}

ExamProfiles ==
  {[id |-> "e1", system |-> "VCE", year_level |-> 11, required_concepts |-> <<"b">>,
    optional_concepts |-> <<"c">>, excluded_concepts |-> <<>>],
   [id |-> "e1", system |-> "VCE", year_level |-> 11, required_concepts |-> <<"c">>,
    optional_concepts |-> <<"a">>, excluded_concepts |-> <<"a">>]}

CurriculumMappings ==
  {[system |-> "VCE", year_level |-> 11, concepts |-> <<"b">>,
    optional_concepts |-> <<"c">>, excluded_concepts |-> <<>>],
   [system |-> "VCE", year_level |-> 11, concepts |-> <<"c">>,
    optional_concepts |-> <<>>, excluded_concepts |-> <<"a">>]}

ExamIds == {"e1", "e2"}

YearLevels == {11, 12}

OverlayLists == {<<"a", "c">>, <<"c", "b">>}

OverlayTargets == {<<"c">>, <<"b">>}

KnownInputs == {<<>>, <<"a">>}

OverlayUpdates == {[confidence |-> 7]}

AddProfile(profile) ==
  /\ Ready
  /\ profiles' = addProfile(profiles, profile)
  /\ SameGraph
  /\ UNCHANGED <<progress, clock, mappings, updates, call, bfs, others>>

AddMapping(mapping) ==
  /\ Ready
  /\ mappings' = addMapping(mappings, mapping)
  /\ SameGraph
  /\ UNCHANGED <<progress, clock, profiles, updates, call, bfs, others>>

GetNode(id) == Query("getNode", id, getNode(G, id))

GetPrerequisites(nodeId) == Query("getPrerequisites", nodeId, getPrerequisites(G, nodeId))

GetDependents(nodeId) == Query("getDependents", nodeId, getDependents(G, nodeId))

GetExamSubgraph(examId, includeOptional) ==
  Query("getExamSubgraph", [examId |-> examId, includeOptional |-> includeOptional],
        getExamSubgraph(profiles, G, examId, includeOptional))

GetStudyPlan(examId, knownConcepts, includeOptional) ==
  Query("getStudyPlan",
        [examId |-> examId, knownConcepts |-> knownConcepts,
         includeOptional |-> includeOptional],
        getStudyPlan(profiles, G, examId, knownConcepts, includeOptional))

EstimateExamReadiness(examId, knownConcepts) ==
  Query("estimateExamReadiness", [examId |-> examId, knownConcepts |-> knownConcepts],
        estimateExamReadiness(profiles, examId, knownConcepts))

GetCurriculumSubgraph(system, yearLevel, includePrerequisites) ==
  Query("getCurriculumSubgraph",
        [system |-> system, yearLevel |-> yearLevel,
         includePrerequisites |-> includePrerequisites],
        getCurriculumSubgraph(mappings, G, system, yearLevel, includePrerequisites))

GenerateExamStudyPath(userId, examId, timeRemainingDays, includeOptional) ==
  Query("generateExamStudyPath",
        [userId |-> userId, examId |-> examId, timeRemainingDays |-> timeRemainingDays,
         includeOptional |-> includeOptional],
        generateExamStudyPath(profiles, progress, userId, G, examId, timeRemainingDays,
                              includeOptional))

GenerateCurriculumStudyPath(userId, system, yearLevel, timeRemainingDays) ==
  Query("generateCurriculumStudyPath",
        [userId |-> userId, system |-> system, yearLevel |-> yearLevel,
         timeRemainingDays |-> timeRemainingDays],
        generateCurriculumStudyPath(mappings, progress, userId, G, system, yearLevel,
                                    timeRemainingDays))

IdentifyCriticalPath(targetConcepts) ==
  Query("identifyCriticalPath", targetConcepts, identifyCriticalPath(G, targetConcepts))

BuildOverlay ==
  \/ \E node \in OverlayNodes : AddNode(node)
  \/ \E edge \in OverlayEdges : AddEdge(edge)
  \/ \E profile \in ExamProfiles : AddProfile(profile)
  \/ \E mapping \in CurriculumMappings : AddMapping(mapping)
  \/ \E userId \in Users, update \in OverlayUpdates : UpdateProgress(userId, "a", update)

GraphCalls ==
  \/ \E id \in Ids : GetNode(id)
  \/ \E nodeId \in Ids : GetPrerequisites(nodeId)
  \/ \E nodeId \in Ids : GetDependents(nodeId)
  \/ \E nodeId \in Ids : GetAllPrerequisitesCall(nodeId)
  \/ GetAllPrerequisitesLoop
  \/ GetAllPrerequisitesReturn
  \/ \E nodeIds \in OverlayLists : TopologicalSort(nodeIds)
  \/ \E nodeIds \in OverlayLists : GetSubgraph(nodeIds)
  \/ DetectCycles
  \/ ExportJSON

OverlayCalls ==
  \/ \E examId \in ExamIds, includeOptional \in BOOLEAN :
       GetExamSubgraph(examId, includeOptional)
  \/ \E examId \in ExamIds, knownConcepts \in KnownInputs, includeOptional \in BOOLEAN :
       GetStudyPlan(examId, knownConcepts, includeOptional)
  \/ \E examId \in ExamIds, knownConcepts \in KnownInputs :
       EstimateExamReadiness(examId, knownConcepts)
  \/ \E yearLevel \in YearLevels, includePrerequisites \in BOOLEAN :
       GetCurriculumSubgraph("VCE", yearLevel, includePrerequisites)

DiagnosticsCalls ==
  \/ \E userId \in Users, conceptId \in StudiedIds : GetProgress(userId, conceptId)
  \/ \E userId \in Users, conceptId \in StudiedIds : GetConfidence(userId, conceptId)
  \/ \E userId \in Users, targetConcepts \in OverlayTargets :
       DetectGaps(userId, targetConcepts, DefaultThreshold)
  \/ \E userId \in Users, targetConcepts \in OverlayTargets, days \in DaysInputs :
       GenerateStudyPath(userId, targetConcepts, days)
  \/ \E userId \in Users, targetConcepts \in OverlayTargets :
       RecommendNextConcepts(userId, targetConcepts, DefaultLimit)

PlannerCalls ==
  \/ \E userId \in Users, examId \in ExamIds, days \in DaysInputs, includeOptional \in BOOLEAN :
       GenerateExamStudyPath(userId, examId, days, includeOptional)
  \/ \E userId \in Users, yearLevel \in YearLevels, days \in DaysInputs :
       GenerateCurriculumStudyPath(userId, "VCE", yearLevel, days)
  \/ \E userId \in Users, targetConcepts \in OverlayTargets, prioritize \in BOOLEAN :
       OptimizeStudyOrder(userId, targetConcepts, prioritize)
  \/ \E targetConcepts \in OverlayTargets : IdentifyCriticalPath(targetConcepts)

NextOverlay ==
  \/ BuildOverlay
  \/ GraphCalls
  \/ OverlayCalls
  \/ DiagnosticsCalls
  \/ PlannerCalls
  \/ Discard

SpecOverlay == Init /\ [][NextOverlay]_vars

(***************************************************************************)
(* The offline validation pass (scripts/validate_graph.ts). A node record *)
(* here carries the fields the pass reads: id, title, description,         *)
(* domains, complexity and requires; a text is a sequence of characters.   *)
(* A data directory is the sequence of its files, each the sequence of the *)
(* node records it holds. A message is a record that names its check.      *)
(***************************************************************************)
MaxCyclesShown == 5

MaxListed == 10

RECURSIVE TrimStart(_)
TrimStart(text) ==
  IF text # <<>> /\ Head(text) = " " THEN TrimStart(Tail(text)) ELSE text

RECURSIVE TrimEnd(_)
TrimEnd(text) ==
  IF text # <<>> /\ text[Len(text)] = " " THEN TrimEnd(SubSeq(text, 1, Len(text) - 1))
  ELSE text

Trim(text) == TrimEnd(TrimStart(text))

IsBlank(text) == text = <<>> \/ Trim(text) = <<>>

loadGraphFromDirectory(files) == AddNodes(NewGraph, Flat(files))

getAllNodeIds(g) ==
  LET exportData == exportJSON(g)
  IN [i \in 1..Len(exportData.nodes) |-> exportData.nodes[i].id]

checkCycles(g) ==
  LET cycles == detectCycles(g)
      shown == Slice(cycles, MaxCyclesShown)
  IN IF Len(cycles) > 0
     THEN <<[check |-> "cycles", count |-> Len(cycles)]>>
            \o [i \in 1..Len(shown) |-> [check |-> "cycle", index |-> i, cycle |-> shown[i]]]
            \o (IF Len(cycles) > MaxCyclesShown
                THEN <<[check |-> "moreCycles", count |-> Len(cycles) - MaxCyclesShown]>>
                ELSE <<>>)
     ELSE <<>>

IsOrphan(g, nodeId) ==
  Len(getIncomingEdges(g, nodeId)) = 0 /\ Len(getOutgoingEdges(g, nodeId)) = 0

OrphanedNodes(g) == SelectSeq(getAllNodeIds(g), LAMBDA nodeId : IsOrphan(g, nodeId))

checkOrphanedNodes(g) ==
  LET orphans == OrphanedNodes(g)
      listed == Slice(orphans, MaxListed)
  IN [i \in 1..Len(listed) |-> [check |-> "orphan", node |-> listed[i]]]
       \o (IF Len(orphans) > MaxListed
           THEN <<[check |-> "moreOrphans", count |-> Len(orphans) - MaxListed]>>
           ELSE <<>>)

MissingOf(g, nodeId) ==
  IF ~MapHas(g.nodes, nodeId) THEN <<>>
  ELSE LET missing == SelectSeq(getNode(g, nodeId).requires,
                                LAMBDA prereqId : ~MapHas(g.nodes, prereqId))
       IN [j \in 1..Len(missing) |->
             [check |-> "missingPrerequisite", node |-> nodeId, prerequisite |-> missing[j]]]

MissingPrerequisites(g) ==
  LET ids == getAllNodeIds(g)
  IN Flat([i \in 1..Len(ids) |-> MissingOf(g, ids[i])])

checkMissingPrerequisites(g) ==
  LET missing == MissingPrerequisites(g)
  IN Slice(missing, MaxListed)
       \o (IF Len(missing) > MaxListed
           THEN <<[check |-> "moreMissing", count |-> Len(missing) - MaxListed]>>
           ELSE <<>>)

CompletenessErrors(node) ==
  (IF IsBlank(node.title) THEN <<[check |-> "emptyTitle", node |-> node.id]>> ELSE <<>>)
    \o (IF node.complexity < 0 \/ node.complexity > 10
        THEN <<[check |-> "invalidComplexity", node |-> node.id,
                complexity |-> node.complexity]>>
        ELSE <<>>)

CompletenessWarnings(node) ==
  (IF IsBlank(node.description) THEN <<[check |-> "emptyDescription", node |-> node.id]>>
   ELSE <<>>)
    \o (IF Len(node.domains) = 0 THEN <<[check |-> "noDomains", node |-> node.id]>>
        ELSE <<>>)

checkNodeCompleteness(g) ==
  LET ids == SelectSeq(getAllNodeIds(g), LAMBDA nodeId : MapHas(g.nodes, nodeId))
  IN [errors |-> Flat([i \in 1..Len(ids) |-> CompletenessErrors(getNode(g, ids[i]))]),
      warnings |-> Flat([i \in 1..Len(ids) |-> CompletenessWarnings(getNode(g, ids[i]))])]

Duplicates(ids) ==
  SetFrom(Flat([i \in 1..Len(ids) |-> IF Includes(SubSeq(ids, 1, i - 1), ids[i])
                                       THEN <<ids[i]>> ELSE <<>>]))

checkDuplicateIds(g) ==
  LET duplicates == Duplicates(getAllNodeIds(g))
      listed == Slice(duplicates, MaxListed)
  IN IF Len(duplicates) > 0
     THEN <<[check |-> "duplicates", count |-> Len(duplicates)]>>
            \o [i \in 1..Len(listed) |-> [check |-> "duplicate", node |-> listed[i]]]
     ELSE <<>>

RECURSIVE SumLen(_)
SumLen(ss) == IF ss = <<>> THEN 0 ELSE Len(Head(ss)) + SumLen(Tail(ss))

calculateStats(g) ==
  LET ids == getAllNodeIds(g)
  IN [totalNodes |-> Len(ids),
      totalEdges |-> SumLen([i \in 1..Len(ids) |-> getOutgoingEdges(g, ids[i])]),
      cyclesDetected |-> Len(detectCycles(g)),
      orphanedNodes |-> Len(OrphanedNodes(g)),
      missingPrerequisites |-> Len(MissingPrerequisites(g))]

validate(g) ==
  LET completeness == checkNodeCompleteness(g)
      errors == checkCycles(g) \o checkMissingPrerequisites(g) \o completeness.errors
                  \o checkDuplicateIds(g)
      warnings == checkOrphanedNodes(g) \o completeness.warnings
  IN [valid |-> Len(errors) = 0, errors |-> errors, warnings |-> warnings,
      stats |-> calculateStats(g)]

(***************************************************************************)
(* A run of the pass: the graph is loaded from the data directory into a   *)
(* new MathGraph, then validated; the script does this once per process.   *)
(* The records differ from a complete one (title, description, a domain,   *)
(* complexity 5) in one field, or name a prerequisite.                     *)
(***************************************************************************)
MaxRecords == 2

RecordIds == {"a", "b"}

Complete(id, requires) ==
  [id |-> id, title |-> <<"T">>, description |-> <<"D">>, domains |-> <<"algebra">>,
   complexity |-> 5, requires |-> requires]

RecordInputs ==
  {Complete(id, requires) : id \in RecordIds, requires \in {<<>>, <<"a">>, <<"b">>, <<"c">>}}
    \cup {[Complete(id, <<>>) EXCEPT !.title = t] : id \in RecordIds, t \in {<<>>, <<" ">>}}
    \cup {[Complete(id, <<>>) EXCEPT !.description = <<>>] : id \in RecordIds}
    \cup {[Complete(id, <<>>) EXCEPT !.domains = <<>>] : id \in RecordIds}
    \cup {[Complete(id, <<>>) EXCEPT !.complexity = c] : id \in RecordIds, c \in {0 - 1, 0, 10, 11}}

DirectoryInputs ==
  {<<file>> : file \in SeqsUpTo(RecordInputs, MaxRecords)}
    \cup {<<<<r1>>, <<r2>>>> : r1 \in RecordInputs, r2 \in RecordInputs}

LoadGraphFromDirectory(files) ==
  /\ Ready
  /\ G = NewGraph
  /\ SetGraph(loadGraphFromDirectory(files))
  /\ added' = <<>>
  /\ call' = [op |-> "loadGraphFromDirectory", arg |-> files,
              ret |-> loadGraphFromDirectory(files)]
  /\ UNCHANGED <<diag, bfs>>

Validate ==
  /\ ~bfs.active
  /\ call.op = "loadGraphFromDirectory"
  /\ call' = [op |-> "validate", arg |-> call.arg, ret |-> validate(G)]
  /\ SameGraph
  /\ UNCHANGED <<diag, bfs>>

NextValidate ==
  \/ \E files \in DirectoryInputs : LoadGraphFromDirectory(files)
  \/ Validate
  \/ Discard

SpecValidate == Init /\ [][NextValidate]_vars

(***************************************************************************)
(* exportProgress / importProgress. A JSON text is modelled by the value   *)
(* it parses to: JSON.stringify writes the six fields of each record, the  *)
(* strings and the finite numbers as they are, and JSON.parse reads them   *)
(* back.                                                                   *)
(***************************************************************************)
JsonProgress(r) ==
  [user_id |-> r.user_id, concept_id |-> r.concept_id, confidence |-> r.confidence,
   last_reviewed |-> r.last_reviewed, review_count |-> r.review_count,
   time_spent_seconds |-> r.time_spent_seconds]

exportProgress(p, userId) ==
  LET userProgress == getUserProgress(p, userId)
  IN [i \in 1..Len(userProgress) |-> JsonProgress(userProgress[i])]

MergeRecord(userProgress, prog) ==
  IF MapHas(userProgress, prog.concept_id)
  THEN LET existing == MapGet(userProgress, prog.concept_id)
       IN [prog EXCEPT !.review_count = @ + existing.review_count,
                       !.time_spent_seconds = @ + existing.time_spent_seconds]
  ELSE prog

StoreRecord(userProgress, prog) == prog

RECURSIVE ImportRecords(_, _)
ImportRecords(userProgress, progressArray) ==
  IF progressArray = <<>> THEN userProgress
  ELSE ImportRecords(MapSet(userProgress, Head(progressArray).concept_id,
                            StoreRecord(userProgress, Head(progressArray))),
                     Tail(progressArray))

importProgress(p, userId, json) ==
  LET p1 == IF MapHas(p, userId) THEN p ELSE MapSet(p, userId, <<>>)
  IN MapSet(p1, userId, ImportRecords(MapGet(p1, userId), json))

(***************************************************************************)
(* Snapshots of progress: two users study, export, and import arrays of    *)
(* records; a snapshot is also restored into a new DiagnosticsEngine that  *)
(* takes the place of the old one. Imported records are told from studied  *)
(* ones by last_reviewed = 1.                                              *)
(***************************************************************************)
SnapshotUpdates == {[confidence |-> 5, time_spent_seconds |-> 2]}

Imported(conceptId, reviewCount) ==
  [user_id |-> "u1", concept_id |-> conceptId, confidence |-> 7, last_reviewed |-> 1,
   review_count |-> reviewCount, time_spent_seconds |-> 9]

ImportedRecords == {Imported("a", 1), Imported("a", 3), Imported("b", 3)}

ImportUsers == {"u1"}

ImportInputs == SeqsUpTo(ImportedRecords, MaxLen)

ExportProgress(userId) == Query("exportProgress", userId, exportProgress(progress, userId))

ImportProgress(userId, json) ==
  /\ Ready
  /\ progress' = importProgress(progress, userId, json)
  /\ call' = [op |-> "importProgress", arg |-> [userId |-> userId, json |-> json],
              ret |-> "undefined"]
  /\ UNCHANGED <<nodes, edges, reverseEdges, added, clock, bfs, overlays, updates,
               others>>

RestoreProgress ==
  /\ ~bfs.active
  /\ call.op = "exportProgress"
  /\ progress' = importProgress(<<>>, call.arg, call.ret)
  /\ call' = [op |-> "importProgress", arg |-> [userId |-> call.arg, json |-> call.ret],
              ret |-> "undefined"]
  /\ UNCHANGED <<nodes, edges, reverseEdges, added, clock, bfs, overlays, updates,
               others>>

RECURSIVE UpdateCount(_, _)
UpdateCount(log, keys) ==
  IF keys = {} THEN 0
  ELSE LET key == CHOOSE k \in keys : TRUE
       IN Len(log[key]) + UpdateCount(log, keys \ {key})

Study(userId, conceptId, update) ==
  /\ UpdateCount(updates, DOMAIN updates) < MaxUpdates
  /\ UpdateProgress(userId, conceptId, update)

NextSnapshot ==
  \/ \E userId \in ProgressUsers, conceptId \in StudiedIds, update \in SnapshotUpdates :
       Study(userId, conceptId, update)
  \/ \E userId \in ProgressUsers : ExportProgress(userId)
  \/ \E userId \in ImportUsers, json \in ImportInputs : ImportProgress(userId, json)
  \/ RestoreProgress
  \/ Discard

SpecSnapshot == Init /\ [][NextSnapshot]_vars

(***************************************************************************)
(* MathIngestionEngine. A text is a sequence of characters and words, a    *)
(* word standing for its letters and digits. A number that parseInt could  *)
(* not read is NaN. Of a node only the fields that decide whether it is    *)
(* validated and saved are kept: id, type, title and complexity.           *)
(***************************************************************************)
UnknownTitle == <<"unknown">>

Num(n) == [nan |-> FALSE, value |-> n]

NaN == [nan |-> TRUE, value |-> 0]

NumberOf(word) ==
  CASE word = "0" -> Num(0)
    [] word = "5" -> Num(5)
    [] word = "11" -> Num(11)
    [] OTHER -> NaN

ParseInt(text) ==
  LET digits == TrimStart(text)
  IN IF digits = <<>> THEN NaN ELSE NumberOf(Head(digits))

Lower(word) == IF word = "Sets" THEN "sets" ELSE word

RECURSIVE Underscored(_, _)
Underscored(text, inRun) ==
  IF text = <<>> THEN <<>>
  ELSE IF Head(text) = " "
       THEN (IF inRun THEN <<>> ELSE <<"_">>) \o Underscored(Tail(text), TRUE)
       ELSE <<Lower(Head(text))>> \o Underscored(Tail(text), FALSE)

StripEnds(text) ==
  LET first == IF text # <<>> /\ Head(text) = "_" THEN Tail(text) ELSE text
  IN IF first # <<>> /\ first[Len(first)] = "_" THEN SubSeq(first, 1, Len(first) - 1)
     ELSE first

generateId(title) == StripEnds(Underscored(title, FALSE))

OrElse(text, default) == IF text = <<>> THEN default ELSE text

Field(data, name) == IF name \in DOMAIN data THEN data[name] ELSE <<>>

NodeOfData(data) ==
  [id |-> OrElse(Field(data, "id"), generateId(OrElse(Field(data, "title"), UnknownTitle))),
   type |-> OrElse(Field(data, "type"), <<"concept">>),
   title |-> Field(data, "title"),
   complexity |-> IF "complexity" \in DOMAIN data /\ data.complexity # 0
                  THEN Num(data.complexity) ELSE Num(5)]

RowField(row, name) == IF MapHas(row, <<name>>) THEN MapGet(row, <<name>>) ELSE <<>>

NodeOfRow(row) ==
  [id |-> OrElse(RowField(row, "id"), generateId(OrElse(RowField(row, "title"), UnknownTitle))),
   type |-> OrElse(RowField(row, "type"), <<"concept">>),
   title |-> RowField(row, "title"),
   complexity |-> ParseInt(OrElse(RowField(row, "complexity"), <<"5">>))]

validateNode(node) ==
  IF IsBlank(node.id) THEN "Node ID is required"
  ELSE IF IsBlank(node.title) THEN "Node title is required"
  ELSE IF ~node.complexity.nan /\ (node.complexity.value < 0 \/ node.complexity.value > 10)
       THEN "Invalid complexity"
  ELSE "ok"

getTypeDirectory(type) ==
  IF Len(type) # 1 THEN "undefined"
  ELSE CASE type[1] \in {"concept", "definition"} -> "concepts"
         [] type[1] \in {"formula", "identity"} -> "formulas"
         [] type[1] \in {"theorem", "proof"} -> "theorems"
         [] type[1] = "symbol" -> "symbols"
         [] OTHER -> "undefined"

CanSave(node) == getTypeDirectory(node.type) # "undefined"

saveNode(saved, node) == MapSet(saved, <<getTypeDirectory(node.type), node.id>>, node)

Counted(stats, saved, node, built) ==
  LET started == [stats EXCEPT !.totalProcessed = @ + 1]
  IN IF built /\ validateNode(node) = "ok" /\ CanSave(node)
     THEN [stats |-> [started EXCEPT !.successful = @ + 1, !.byType[node.type[1]] = @ + 1],
           saved |-> saveNode(saved, node)]
     ELSE [stats |-> [started EXCEPT !.failed = @ + 1], saved |-> saved]

IsNull(data) == "null" \in DOMAIN data

processNode(stats, saved, data) ==
  Counted(stats, saved, IF IsNull(data) THEN data ELSE NodeOfData(data), ~IsNull(data))

processRow(stats, saved, row) == Counted(stats, saved, NodeOfRow(row), TRUE)

NonBlankLines(lines) ==
  SelectSeq(lines, LAMBDA line : ~(Len(line) = 1 /\ IsBlank(line[1])))

RECURSIVE RowOf(_, _, _)
RowOf(headers, values, idx) ==
  IF idx = 0 THEN <<>>
  ELSE MapSet(RowOf(headers, values, idx - 1), Trim(headers[idx]),
              IF idx <= Len(values) THEN Trim(values[idx]) ELSE <<>>)

RowsOf(lines) ==
  [i \in 1..(Len(lines) - 1) |-> RowOf(lines[1], lines[i + 1], Len(lines[1]))]

(***************************************************************************)
(* A run of the ingest script over two files. main reads the files in      *)
(* order; an exception that leaves ingestFromJSON or ingestFromCSV leaves  *)
(* main too, and the run ends there without printing the statistics. The   *)
(* value a JSON file parses to is held as the list of its items: the array *)
(* itself, or the one value that is not an array.                          *)
(***************************************************************************)
MaxItems == 2

NullItem == [null |-> TRUE]

DataInputs ==
  {[id |-> <<"a">>, title |-> <<"Sets">>],
   [id |-> <<"b">>],
   [title |-> <<" ", "Sets">>, type |-> <<"lemma">>, complexity |-> 0],
   [id |-> <<"c">>, title |-> <<"Sets">>, complexity |-> 11],
   NullItem}

Header == <<<<"id">>, <<" ", "title">>, <<"type">>, <<"complexity">>>>

LineInputs ==
  {<<<<"a">>, <<"Sets", " ">>, <<"theorem">>, <<"5">>>>,
   <<<<>>, <<" ">>>>,
   <<<<"c">>, <<"Sets">>, <<>>, <<"x">>>>,
   <<<<"d">>, <<"Sets">>, <<>>, <<"11">>>>}

JsonFile(parses, isArray, data) ==
  [exists |-> TRUE, ext |-> ".json", parses |-> parses, isArray |-> isArray, data |-> data]

CsvFile(lines) == [exists |-> TRUE, ext |-> ".csv", lines |-> lines]

FileInputs ==
  {JsonFile(TRUE, TRUE, data) : data \in SeqsUpTo(DataInputs, MaxItems)}
    \cup {JsonFile(TRUE, FALSE, <<data>>) : data \in DataInputs}
    \cup {JsonFile(FALSE, FALSE, <<>>)}
    \cup {CsvFile(<<Header>> \o lines) : lines \in SeqsUpTo(LineInputs, MaxItems)}
    \cup {CsvFile(<<>>), CsvFile(<<<<<<" ">>>>, Header, <<<<>>>>, <<<<"a">>, <<"Sets">>>>>>)}
    \cup {[exists |-> FALSE, ext |-> ".json"], [exists |-> TRUE, ext |-> ".txt"]}

LastFiles ==
  {JsonFile(TRUE, FALSE, <<[id |-> <<"z">>, title |-> <<"Sets">>]>>),
   CsvFile(<<Header, <<<<"z">>, <<"Sets">>>>>>)}

core ==
  <<nodes, edges, reverseEdges, added, progress, clock, overlays, updates, call, bfs,
    critical, criticalPrereqs, learner>>

Reading == ingestion.status = "running" /\ ingestion.records = <<>> /\ ingestion.files # <<>>

Main(args) ==
  /\ ingestion.status = "idle"
  /\ ingestion' = [NoRun EXCEPT !.status = "running", !.args = args, !.files = args]
  /\ UNCHANGED core

SkipFile ==
  /\ Reading
  /\ ~Head(ingestion.files).exists \/ Head(ingestion.files).ext \notin {".json", ".csv"}
  /\ ingestion' = [ingestion EXCEPT !.files = Tail(@)]
  /\ UNCHANGED core

IngestFromJSON ==
  /\ Reading
  /\ Head(ingestion.files).exists
  /\ Head(ingestion.files).ext = ".json"
  /\ LET file == Head(ingestion.files)
     IN ingestion' =
          IF ~file.parses THEN [ingestion EXCEPT !.status = "crashed"]
          ELSE [ingestion EXCEPT !.files = Tail(@), !.format = "json",
                                 !.records = IF file.isArray THEN file.data
                                             ELSE <<file.data[1]>>]
  /\ UNCHANGED core

IngestFromCSV ==
  /\ Reading
  /\ Head(ingestion.files).exists
  /\ Head(ingestion.files).ext = ".csv"
  /\ LET lines == NonBlankLines(Head(ingestion.files).lines)
     IN ingestion' =
          IF lines = <<>> THEN [ingestion EXCEPT !.status = "crashed"]
          ELSE [ingestion EXCEPT !.files = Tail(@), !.format = "csv",
                                 !.records = RowsOf(lines)]
  /\ UNCHANGED core

ProcessNode ==
  /\ ingestion.status = "running"
  /\ ingestion.records # <<>>
  /\ ingestion.format = "json"
  /\ LET done == processNode(ingestion.stats, ingestion.saved, Head(ingestion.records))
     IN ingestion' = [ingestion EXCEPT !.records = Tail(@), !.stats = done.stats,
                                       !.saved = done.saved]
  /\ UNCHANGED core

ProcessRow ==
  /\ ingestion.status = "running"
  /\ ingestion.records # <<>>
  /\ ingestion.format = "csv"
  /\ LET done == processRow(ingestion.stats, ingestion.saved, Head(ingestion.records))
     IN ingestion' = [ingestion EXCEPT !.records = Tail(@), !.stats = done.stats,
                                       !.saved = done.saved]
  /\ UNCHANGED core

PrintStats ==
  /\ ingestion.status = "running"
  /\ ingestion.records = <<>>
  /\ ingestion.files = <<>>
  /\ ingestion' = [ingestion EXCEPT !.status = "done"]
  /\ UNCHANGED core

NextIngest ==
  \/ \E first \in FileInputs, last \in LastFiles : Main(<<first, last>>)
  \/ SkipFile
  \/ IngestFromJSON
  \/ IngestFromCSV
  \/ ProcessNode
  \/ ProcessRow
  \/ PrintStats

SpecIngest == Init /\ [][NextIngest]_vars

(***************************************************************************)
(* StudyPlanner.identifyCriticalPath, step by step. critical is the state  *)
(* of a running call: the targets, the index of the target the for loop is *)
(* at, maxDepth, and inside the while loop depth and current;              *)
(* criticalPrereqs is its set allPrereqs. No chain without a repeated ID   *)
(* is longer than the number of edges, so a depth above MaxEdges is only   *)
(* counted on a cycle; depth is counted up to DepthCap and stays there.    *)
(* ForTarget and Returned are what CriticalForTarget and                   *)
(* IdentifyCriticalPathReturn do to critical.                              *)
(***************************************************************************)
DepthCap == MaxEdges + 2

NextWave(g, current) ==
  SetFrom(Flat([i \in 1..Len(current) |-> getPrerequisites(g, current[i])]))

CountWaveAlways(depth, next) == IF depth < DepthCap THEN depth + 1 ELSE depth

CountWave(depth, next) ==
  IF Len(next) > 0 THEN (IF depth < DepthCap THEN depth + 1 ELSE depth) ELSE depth

IdentifyCriticalPathCall(targetConcepts) ==
  /\ Ready
  /\ critical' = [active |-> TRUE, targetConcepts |-> targetConcepts, index |-> 1,
                  maxDepth |-> 0, inWhile |-> FALSE, depth |-> 0, current |-> <<>>]
  /\ criticalPrereqs' = <<>>
  /\ SameGraph
  /\ UNCHANGED <<progress, clock, overlays, updates, ingestion, call, bfs, learner>>

ForTarget ==
  /\ critical.active
  /\ ~critical.inWhile
  /\ critical.index <= Len(critical.targetConcepts)
  /\ critical' = [critical EXCEPT !.inWhile = TRUE, !.depth = 0,
                                  !.current = <<critical.targetConcepts[critical.index]>>]

CriticalForTarget ==
  /\ ForTarget
  /\ criticalPrereqs' =
       SetAddAll(criticalPrereqs,
                 getAllPrerequisites(G, critical.targetConcepts[critical.index]))
  /\ SameGraph
  /\ UNCHANGED <<progress, clock, overlays, updates, ingestion, call, bfs, learner>>

CriticalWhile ==
  /\ critical.active
  /\ critical.inWhile
  /\ Len(critical.current) > 0
  /\ LET next == NextWave(G, critical.current)
     IN critical' = [critical EXCEPT !.depth = CountWave(@, next), !.current = next]
  /\ SameGraph
  /\ UNCHANGED <<progress, clock, overlays, updates, ingestion, call, bfs, criticalPrereqs,
               learner>>

CriticalWhileEnd ==
  /\ critical.active
  /\ critical.inWhile
  /\ Len(critical.current) = 0
  /\ critical' = [critical EXCEPT
                    !.maxDepth = IF critical.depth > @ THEN critical.depth ELSE @,
                    !.inWhile = FALSE, !.index = @ + 1]
  /\ SameGraph
  /\ UNCHANGED <<progress, clock, overlays, updates, ingestion, call, bfs, criticalPrereqs,
               learner>>

Returned ==
  /\ critical.active
  /\ ~critical.inWhile
  /\ critical.index > Len(critical.targetConcepts)
  /\ critical' = NoCritical

IdentifyCriticalPathReturn ==
  /\ Returned
  /\ call' = [op |-> "identifyCriticalPath", arg |-> critical.targetConcepts,
              ret |-> [criticalConcepts |->
                         topologicalSort(G, critical.targetConcepts \o criticalPrereqs),
                       depth |-> critical.maxDepth,
                       totalPrerequisites |-> Len(criticalPrereqs)]]
  /\ SameGraph
  /\ UNCHANGED <<progress, clock, overlays, updates, ingestion, bfs, criticalPrereqs, learner>>

CriticalEdges ==
  {Edge("a", "b", "REQUIRES", "1"), Edge("b", "c", "REQUIRES", "1"),
   Edge("a", "c", "REQUIRES", "1"), Edge("b", "a", "REQUIRES", "1"),
   Edge("a", "c", "USED_IN", "1")}

CriticalTargets == {<<>>, <<"c">>, <<"b", "c">>, <<"c", "a">>}

NextCritical ==
  \/ \E edge \in CriticalEdges : AddEdge(edge)
  \/ \E targetConcepts \in CriticalTargets : IdentifyCriticalPathCall(targetConcepts)
  \/ CriticalForTarget
  \/ CriticalWhile
  \/ CriticalWhileEnd
  \/ IdentifyCriticalPathReturn
  \/ Discard

(***************************************************************************)
(* identifyCriticalPath is synchronous: once called, its loops keep        *)
(* running until their conditions fail, and then it returns. Whether a     *)
(* step can be taken is told by critical alone.                            *)
(***************************************************************************)
SpecCritical ==
  /\ Init
  /\ [][NextCritical]_vars
  /\ WF_critical(ForTarget)
  /\ WF_critical(CriticalWhile)
  /\ WF_critical(CriticalWhileEnd)
  /\ WF_critical(Returned)

(***************************************************************************)
(* A learner who follows the recommendations: asks recommendNextConcepts   *)
(* for the targets, studies one of the recommended concepts, which raises  *)
(* its confidence to 0.7 or more through updateProgress, and asks again;   *)
(* an empty recommendation ends the loop. learner holds the phase of the   *)
(* loop, its arguments and the concepts studied so far. The graph and the  *)
(* progress of before are made while no learner is at work.                *)
(***************************************************************************)
LearnerEdges ==
  {Edge("a", "b", "REQUIRES", "1"), Edge("b", "c", "REQUIRES", "1"),
   Edge("a", "c", "REQUIRES", "1")}

LearnerUpdates == {[confidence |-> c] : c \in {5, 7}}

LearnerTargets == {<<"c">>, <<"b", "a">>}

LearnerLimits == {1, DefaultLimit}

RaisedTo == {[confidence |-> c] : c \in {7, 10}}

AtRest(A) == learner.phase = "idle" /\ A

StartLearning(userId, targetConcepts, limit) ==
  /\ Ready
  /\ learner.phase = "idle"
  /\ learner' = [phase |-> "ask", userId |-> userId, targetConcepts |-> targetConcepts,
                 limit |-> limit, studied |-> <<>>]
  /\ SameGraph
  /\ UNCHANGED <<progress, clock, overlays, updates, ingestion, critical, criticalPrereqs,
                 call, bfs>>

Asked ==
  /\ learner.phase = "ask"
  /\ learner' = [learner EXCEPT !.phase = "study"]

AskNext ==
  /\ Asked
  /\ call' = [op |-> "recommendNextConcepts",
              arg |-> [userId |-> learner.userId, targetConcepts |-> learner.targetConcepts,
                       limit |-> learner.limit],
              ret |-> recommendNextConcepts(progress, learner.userId, G,
                                            learner.targetConcepts, learner.limit)]
  /\ SameGraph
  /\ UNCHANGED <<progress, clock, overlays, updates, ingestion, critical, criticalPrereqs, bfs>>

Studied(conceptId) ==
  /\ learner.phase = "study"
  /\ Includes(call.ret, conceptId)
  /\ learner' = [learner EXCEPT !.phase = "ask", !.studied = Append(@, conceptId)]

StudyRecommended(conceptId, update) ==
  /\ Studied(conceptId)
  /\ progress' = updateProgress(progress, learner.userId, conceptId, update, clock)
  /\ updates' = (<<learner.userId, conceptId>> :>
                   Append(UpdatesOf(updates, learner.userId, conceptId), update)) @@ updates
  /\ call' = Idle
  /\ SameGraph
  /\ UNCHANGED <<clock, overlays, ingestion, critical, criticalPrereqs, bfs>>

Finished ==
  /\ learner.phase = "study"
  /\ call.ret = <<>>
  /\ learner' = [learner EXCEPT !.phase = "done"]

FinishLearning ==
  /\ Finished
  /\ call' = Idle
  /\ SameGraph
  /\ UNCHANGED <<progress, clock, overlays, updates, ingestion, critical, criticalPrereqs, bfs>>

NextLearner ==
  \/ \E edge \in LearnerEdges : AtRest(AddEdge(edge))
  \/ \E userId \in Users, conceptId \in StudiedIds, update \in LearnerUpdates :
       AtRest(UpdateProgress(userId, conceptId, update))
  \/ \E userId \in Users, targetConcepts \in LearnerTargets, limit \in LearnerLimits :
       StartLearning(userId, targetConcepts, limit)
  \/ AskNext
  \/ \E conceptId \in Ids, update \in RaisedTo : StudyRecommended(conceptId, update)
  \/ FinishLearning

(***************************************************************************)
(* The learner keeps going: each step of the loop that can be taken is     *)
(* taken. Whether one can be taken is told by learner and the last answer. *)
(***************************************************************************)
SpecLearner ==
  /\ Init
  /\ [][NextLearner]_vars
  /\ WF_learner(Asked)
  /\ WF_learner(\E conceptId \in Ids : Studied(conceptId))
  /\ WF_learner(Finished)

(***************************************************************************)
(* The two adjacency indexes under addNode, addEdge and fromJSON, with     *)
(* nodes that differ in their record. ReplaceNode is addNode called for an *)
(* ID that getNode has just found in the graph; the slot keeps the record  *)
(* that was there.                                                         *)
(***************************************************************************)
IndexNodes == {[id |-> i, complexity |-> c] : i \in {"a", "b"}, c \in {3, 5}}

IndexEdges ==
  {Edge("a", "b", "REQUIRES", "1"), Edge("b", "a", "REQUIRES", "1"),
   Edge("a", "a", "REQUIRES", "1"), Edge("a", "b", "USED_IN", "1"),
   Edge("b", "c", "REQUIRES", "1")}

ReplaceNode(node) ==
  /\ ~bfs.active
  /\ ~critical.active
  /\ call.op = "getNode"
  /\ call.arg = node.id
  /\ MapHas(nodes, node.id)
  /\ SetGraph(addNode(G, node))
  /\ call' = [op |-> "addNode", arg |-> node, ret |-> "undefined", was |-> call.ret]
  /\ UNCHANGED <<diag, bfs, added>>

NextIndex ==
  \/ \E node \in IndexNodes : AddNode(node)
  \/ \E edge \in IndexEdges : AddEdge(edge)
  \/ \E id \in {"a", "b"} : GetNode(id)
  \/ \E node \in IndexNodes : ReplaceNode(node)
  \/ ExportJSON
  \/ FromJSON
  \/ Discard

SpecIndex == Init /\ [][NextIndex]_vars

(***************************************************************************)
(* What the claims speak of, defined on the edge multiset alone.           *)
(***************************************************************************)
AllEdges(g) == Range(ExportedEdges(g))

RequiresPairs(g) == {<<e.from, e.to>> : e \in {x \in AllEdges(g) : x.type = "REQUIRES"}}

Within(R, S) == {p \in R : p[1] \in S /\ p[2] \in S}

Back(R, S) == {p[1] : p \in {q \in R : q[2] \in S}}

RECURSIVE Grow(_, _)
Grow(R, S) == IF Back(R, S) \subseteq S THEN S ELSE Grow(R, S \cup Back(R, S))

Ancestors(R, n) == Grow(R, Back(R, {n}))

OnCycle(R, n) == n \in Ancestors(R, n)

HasCycle(R) == \E p \in R : OnCycle(R, p[1])

(* C1: getAllPrerequisites(n) returns exactly the IDs other than n from    *)
(* which n is reached along one or more REQUIRES edges, each once, and     *)
(* never n itself.                                                         *)
C1_AllPrerequisitesExact ==
  call.op = "getAllPrerequisites" =>
    /\ Range(call.ret) = Ancestors(RequiresPairs(G), call.arg) \ {call.arg}
    /\ NoRepeat(call.ret)
    /\ ~Includes(call.ret, call.arg)

C1_Witness ==
  /\ call.op = "getAllPrerequisites"
  /\ OnCycle(RequiresPairs(G), call.arg)
  /\ call.ret # <<>>

NoReExpansion == bfs.active => NoRepeat(bfs.loop.expanded)

(* C2: a call of getAllPrerequisites returns, whatever the graph, and no   *)
(* ID has its prerequisites pushed a second time during the call.          *)
C2_Terminates == (bfs.active ~> ~bfs.active) /\ []NoReExpansion

C2_Witness ==
  /\ call.op = "getAllPrerequisites"
  /\ OnCycle(RequiresPairs(G), call.arg)
  /\ Len(call.expanded) > 1

(* C3: detectCycles returns an empty list exactly when the REQUIRES edges  *)
(* have no directed cycle, also for edges between IDs that are not nodes.  *)
C3_DetectCyclesIffCyclic ==
  call.op = "detectCycles" => ((call.ret = <<>>) <=> ~HasCycle(RequiresPairs(G)))

(* C4: topologicalSort returns no ID twice and puts a before b for every   *)
(* REQUIRES edge a -> b whose endpoints are both returned.                 *)
C4_TopologicalOrder ==
  call.op = "topologicalSort" =>
    /\ NoRepeat(call.ret)
    /\ \A p \in RequiresPairs(G) :
         (Includes(call.ret, p[1]) /\ Includes(call.ret, p[2]))
           => IndexOf(call.ret, p[1]) < IndexOf(call.ret, p[2])

C4_Witness ==
  /\ call.op = "topologicalSort"
  /\ \E p \in RequiresPairs(G) :
       /\ Includes(call.ret, p[1]) /\ Includes(call.ret, p[2])
       /\ IndexOf(call.arg, p[1]) > IndexOf(call.arg, p[2])

Sortable(g, S) ==
  LET R == Within(RequiresPairs(g), S)
  IN {x \in S : ~OnCycle(R, x) /\ \A y \in Ancestors(R, x) : ~OnCycle(R, y)}

(* C5: topologicalSort(S) returns, once each, exactly the IDs of S that    *)
(* are neither on a REQUIRES cycle inside S nor depend inside S on an ID   *)
(* that is; prerequisites outside S keep nothing out.                      *)
C5_SortedExactly ==
  call.op = "topologicalSort" =>
    /\ Range(call.ret) = Sortable(G, Range(call.arg))
    /\ NoRepeat(call.ret)

C5_Witness ==
  /\ call.op = "topologicalSort"
  /\ \E x \in Range(call.arg) :
       /\ ~Includes(call.ret, x)
       /\ ~OnCycle(Within(RequiresPairs(G), Range(call.arg)), x)

SameSnapshot(j1, j2) ==
  /\ Range(j1.nodes) = Range(j2.nodes)
  /\ Len(j1.nodes) = Len(j2.nodes)
  /\ BagOf(j1.edges) = BagOf(j2.edges)

(* C6: a snapshot, the graph rebuilt from it and the snapshot of that      *)
(* graph: the second snapshot has the nodes and the edge multiset of the   *)
(* first.                                                                  *)
C6_RoundTrip == call.op = "fromJSON" => SameSnapshot(call.arg, exportJSON(call.ret))

C6_Witness ==
  /\ call.op = "fromJSON"
  /\ call.arg.nodes # <<>>
  /\ \E e \in Range(call.arg.edges) :
       Count(call.arg.edges, e) > 1 /\ ~MapHas(call.ret.nodes, e.from)

(* C7: getSubgraph(ids) is the induced subgraph: the source nodes with an  *)
(* ID in ids, and every source edge with both endpoints in ids as often as *)
(* the source graph holds it, also when ids repeats an ID.                 *)
C7_InducedSubgraph ==
  call.op = "getSubgraph" =>
    LET S == Range(call.arg)
    IN /\ Range(MapValues(call.ret.nodes)) = {n \in Range(MapValues(nodes)) : n.id \in S}
       /\ \A e \in AllEdges(G) \cup AllEdges(call.ret) :
            Count(ExportedEdges(call.ret), e) =
              IF e.from \in S /\ e.to \in S THEN Count(ExportedEdges(G), e) ELSE 0

RECURSIVE BagSum(_, _)
BagSum(b, S) ==
  IF S = {} THEN 0 ELSE LET x == CHOOSE y \in S : TRUE IN b[x] + BagSum(b, S \ {x})

SameEnds(e) == {x \in DOMAIN added : x.type = "REQUIRES" /\ x.from = e.from /\ x.to = e.to}

(* C8: an edge added k times is held k times: in the forward list of its   *)
(* source, in the reverse list of its target, in getPrerequisites and      *)
(* getDependents, and in the exported snapshot (where an edge is written   *)
(* as JSON); no addEdge call is refused, whatever the edge.                *)
C8_EdgeKeptKTimes ==
  \A e \in DOMAIN added \cup AllEdges(G) :
    /\ Count(getOutgoingEdges(G, e.from), e) = BagCount(added, e)
    /\ Count(getIncomingEdges(G, e.to), e) = BagCount(added, e)
    /\ Count(exportJSON(G).edges, JsonEdge(e))
         = BagSum(added, {x \in DOMAIN added : JsonEdge(x) = JsonEdge(e)})
    /\ e.type = "REQUIRES" =>
         /\ Count(getPrerequisites(G, e.to), e.from) = BagSum(added, SameEnds(e))
         /\ Count(getDependents(G, e.from), e.to) = BagSum(added, SameEnds(e))

C8_Witness ==
  \E e \in DOMAIN added :
    /\ added[e] > 1
    /\ e.type = "REQUIRES"
    /\ ~MapHas(nodes, e.from)
    /\ OnCycle(RequiresPairs(G), e.to)

(***************************************************************************)
(* What the diagnostics claims speak of.                                   *)
(***************************************************************************)
Required(g, targetConcepts) ==
  Range(targetConcepts)
    \cup UNION {Ancestors(RequiresPairs(g), t) : t \in Range(targetConcepts)}

Conf(userId, c) == IF HasProgress(progress, userId, c)
                   THEN MapGet(MapGet(progress, userId), c).confidence ELSE 0

GapsPartition ==
  LET userId == call.arg.userId
      threshold == call.arg.confidenceThreshold
      targets == Range(call.arg.targetConcepts)
      required == Required(G, call.arg.targetConcepts)
      missing == Range(call.ret.missing)
      weak == Range(call.ret.weak)
      strong == Range(call.ret.strongPrereqs)
      knownTargets == {c \in targets : Conf(userId, c) >= threshold}
  IN /\ missing = {c \in required : Conf(userId, c) = 0}
     /\ weak = {c \in required : 0 < Conf(userId, c) /\ Conf(userId, c) < threshold}
     /\ strong = {c \in required \ targets : Conf(userId, c) >= threshold}
     /\ missing \cup weak \cup strong \cup knownTargets = required
     /\ missing \cap weak = {} /\ missing \cap strong = {} /\ weak \cap strong = {}
     /\ knownTargets \cap (missing \cup weak \cup strong) = {}
     /\ NoRepeat(call.ret.missing) /\ NoRepeat(call.ret.weak)
     /\ NoRepeat(call.ret.strongPrereqs)

(* C9, as claimed: for every threshold, detectGaps puts each concept of    *)
(* the targets and their transitive prerequisites in exactly one of        *)
(* missing, weak, known targets and strongPrereqs, and the three returned  *)
(* lists are pairwise disjoint.                                            *)
C9_GapsPartitionAnyThreshold == call.op = "detectGaps" => GapsPartition

(* C9, amended: the same partition for every threshold above 0.            *)
C9_GapsPartition ==
  (call.op = "detectGaps" /\ call.arg.confidenceThreshold > 0) => GapsPartition

C9_Witness ==
  /\ call.op = "detectGaps"
  /\ call.arg.confidenceThreshold > 0
  /\ call.ret.missing # <<>>
  /\ call.ret.weak # <<>>
  /\ call.ret.strongPrereqs # <<>>

(* C10: ordered_concepts of generateStudyPath holds only missing or weak   *)
(* concepts of the targets' closure, and a comes before b for every        *)
(* REQUIRES edge a -> b between two of them.                               *)
C10_StudyPathOrdered ==
  call.op = "generateStudyPath" =>
    LET ordered == call.ret.ordered_concepts
    IN /\ Range(ordered) \subseteq
            {c \in Required(G, call.arg.targetConcepts) :
               Conf(call.arg.userId, c) < DefaultThreshold}
       /\ \A p \in RequiresPairs(G) :
            (Includes(ordered, p[1]) /\ Includes(ordered, p[2]))
              => IndexOf(ordered, p[1]) < IndexOf(ordered, p[2])

C10_Witness ==
  /\ call.op = "generateStudyPath"
  /\ \E p \in RequiresPairs(G) :
       /\ Includes(call.ret.ordered_concepts, p[1])
       /\ Includes(call.ret.ordered_concepts, p[2])
  /\ \E c \in Range(call.ret.ordered_concepts) : Conf(call.arg.userId, c) > 0

(* C11: with the weak-first bias on or off, every concept returned by      *)
(* optimizeStudyOrder comes after each of its direct REQUIRES              *)
(* prerequisites that is also returned, and the returned order is a        *)
(* permutation of the topological order it re-sorts.                       *)
C11_OptimizeKeepsTopologicalOrder ==
  call.op = "optimizeStudyOrder" =>
    LET ordered == call.ret
        topo == topologicalSort(G, PlannerToStudy(progress, call.arg.userId, G,
                                                  call.arg.targetConcepts))
    IN /\ \A p \in RequiresPairs(G) :
            (Includes(ordered, p[1]) /\ Includes(ordered, p[2]))
              => IndexOf(ordered, p[1]) < IndexOf(ordered, p[2])
       /\ \A c \in Ids : Count(ordered, c) = Count(topo, c)
       /\ Len(ordered) = Len(topo)

(***************************************************************************)
(* What a list of updates amounts to: the sum of its time deltas and the   *)
(* last confidence it supplies.                                            *)
(***************************************************************************)
RECURSIVE TimeSupplied(_)
TimeSupplied(log) ==
  IF log = <<>> THEN 0
  ELSE (IF "time_spent_seconds" \in DOMAIN Head(log) THEN Head(log).time_spent_seconds ELSE 0)
         + TimeSupplied(Tail(log))

RECURSIVE LastConfidence(_)
LastConfidence(log) ==
  IF log = <<>> THEN 0
  ELSE IF "confidence" \in DOMAIN log[Len(log)] THEN log[Len(log)].confidence
  ELSE LastConfidence(SubSeq(log, 1, Len(log) - 1))

ProgressFollowsUpdates ==
  \A userId \in ProgressUsers, conceptId \in Ids :
    LET log == UpdatesOf(updates, userId, conceptId)
        record == getProgress(progress, userId, conceptId)
    IN /\ HasProgress(progress, userId, conceptId) <=> log # <<>>
       /\ log # <<>> =>
            /\ record.review_count = Len(log)
            /\ record.time_spent_seconds = TimeSupplied(log)
            /\ record.confidence = LastConfidence(log)

OtherRecordsKept ==
  \A userId \in ProgressUsers, conceptId \in Ids :
    UpdatesOf(updates', userId, conceptId) = UpdatesOf(updates, userId, conceptId)
      => getProgress(progress', userId, conceptId) = getProgress(progress, userId, conceptId)

(* C12: after any sequence of updateProgress calls for a (user, concept)   *)
(* pair its record exists from the first call on, review_count is the      *)
(* number of calls, time_spent_seconds the sum of the supplied deltas (a    *)
(* missing one counts 0) and confidence the last one supplied (0 if none);  *)
(* a call leaves the records of every other pair as they were.             *)
C12_ProgressAccumulates == []ProgressFollowsUpdates /\ [][OtherRecordsKept]_vars

C12_Witness ==
  \E userId \in ProgressUsers, conceptId \in Ids :
    LET log == UpdatesOf(updates, userId, conceptId)
    IN /\ Len(log) = 2
       /\ "confidence" \in DOMAIN log[1]
       /\ "confidence" \notin DOMAIN log[2]
       /\ log[1].confidence > 0
       /\ TimeSupplied(log) > 0

(***************************************************************************)
(* The concepts recommendNextConcepts may return: those of the study path  *)
(* with confidence below 0.7 whose direct prerequisites all have           *)
(* confidence 0.7 or more; Score is (1 - confidence) * 10.                 *)
(***************************************************************************)
Score(userId, c) == 10 - Conf(userId, c)

Eligible(userId, targetConcepts) ==
  {c \in Range(generateStudyPath(progress, userId, G, targetConcepts,
                                 RecommendDays).ordered_concepts) :
     /\ Conf(userId, c) < DefaultThreshold
     /\ \A q \in RequiresPairs(G) : q[2] = c => Conf(userId, q[1]) >= DefaultThreshold}

(* C13: every concept recommendNextConcepts returns is in the generated    *)
(* study path, has confidence below 0.7 and all its direct REQUIRES        *)
(* prerequisites at 0.7 or more; at most limit concepts are returned, in   *)
(* non-increasing order of (1 - confidence) * 10, and no eligible concept  *)
(* with a strictly higher score than a returned one is left out.           *)
C13_RecommendTopN ==
  call.op = "recommendNextConcepts" =>
    LET userId == call.arg.userId
        eligible == Eligible(userId, call.arg.targetConcepts)
        ret == call.ret
    IN /\ Range(ret) \subseteq eligible
       /\ Len(ret) <= call.arg.limit
       /\ NoRepeat(ret)
       /\ \A i, j \in 1..Len(ret) : i < j => Score(userId, ret[i]) >= Score(userId, ret[j])
       /\ \A c \in eligible \ Range(ret) :
            \A i \in 1..Len(ret) : Score(userId, c) <= Score(userId, ret[i])

C13_Witness ==
  /\ call.op = "recommendNextConcepts"
  /\ Len(call.ret) = 1
  /\ Cardinality(Eligible(call.arg.userId, call.arg.targetConcepts)) = 2
  /\ \E c \in Eligible(call.arg.userId, call.arg.targetConcepts) :
       Score(call.arg.userId, c) < Score(call.arg.userId, call.ret[1])
  /\ IndexOf(generateStudyPath(progress, call.arg.userId, G, call.arg.targetConcepts,
                               RecommendDays).ordered_concepts, call.ret[1]) > 1

(***************************************************************************)
(* The time of a concept with complexity x and confidence k/10,            *)
(* 0.5 * (1 + x/10) * (1 - (k/10) * 0.5) hours, is (10 + x)(20 - k) / 400. *)
(***************************************************************************)
ExistingOf(ordered) == SelectSeq(ordered, LAMBDA c : MapHas(nodes, c))

Time400(userId, c) == (10 + MapGet(nodes, c).complexity) * (20 - Conf(userId, c))

Nominal400(c) == (10 + MapGet(nodes, c).complexity) * 20

RECURSIVE SumTime400(_, _)
SumTime400(userId, cs) ==
  IF cs = <<>> THEN 0 ELSE Time400(userId, Head(cs)) + SumTime400(userId, Tail(cs))

C15_NeedsReviewExact ==
  call.op = "needsReview" =>
    LET userId == call.arg.userId
        conceptId == call.arg.conceptId
        has == HasProgress(progress, userId, conceptId)
        record == MapGet(MapGet(progress, userId), conceptId)
    IN /\ call.ret <=> (/\ has
                        /\ record.confidence > 0
                        /\ clock - record.last_reviewed
                             >= call.arg.daysSinceLastReview * 86400000)
       /\ (~has \/ Conf(userId, conceptId) = 0) => ~call.ret

C15_Witness ==
  /\ call.op = "needsReview"
  /\ call.ret
  /\ call.arg.daysSinceLastReview = DefaultReviewDays
  /\ clock - MapGet(MapGet(progress, call.arg.userId), call.arg.conceptId).last_reviewed
       = DefaultReviewDays * 86400000

ConceptsOf(schedule) == Flat([i \in 1..Len(schedule) |-> schedule[i].concepts])

(* C16: for n ordered concepts and time_remaining_days >= 1,               *)
(* suggestReviewSchedule cuts the list in chunks of ceil(n / days): it     *)
(* returns at most days entries with strictly increasing dates, none       *)
(* empty, and the entries' concept lists concatenated in schedule order    *)
(* are ordered_concepts.                                                   *)
C16_ScheduleChunks ==
  (call.op = "suggestReviewSchedule" /\ call.arg.studyPath.time_remaining_days >= 1) =>
    LET ordered == call.arg.studyPath.ordered_concepts
        days == call.arg.studyPath.time_remaining_days
        n == Len(ordered)
        schedule == call.ret
        chunk == CHOOSE k \in 0..n : k * days >= n /\ (k = 0 \/ (k - 1) * days < n)
    IN /\ Len(schedule) <= days
       /\ \A i \in 1..Len(schedule) :
            /\ schedule[i].concepts # <<>>
            /\ Len(schedule[i].concepts) <= chunk
            /\ i < Len(schedule) => Len(schedule[i].concepts) = chunk
       /\ \A i, j \in 1..Len(schedule) : i < j => schedule[i].date < schedule[j].date
       /\ ConceptsOf(schedule) = ordered

C16_Witness ==
  /\ call.op = "suggestReviewSchedule"
  /\ Len(call.arg.studyPath.ordered_concepts) = 4
  /\ call.arg.studyPath.time_remaining_days = 3
  /\ Len(call.ret) = 2

(***************************************************************************)
(* r is x = totalHours / days rounded to one decimal, in tenths:           *)
(* |r - 10 x| <= 1/2.                                                      *)
(***************************************************************************)
IsRoundedTenth(r, totalHours, days) ==
  /\ 2 * (r * days - 10 * totalHours) <= days
  /\ 2 * (10 * totalHours - r * days) <= days

(* C17, as claimed: dailyHours is estimated_total_hours / days rounded to  *)
(* one decimal and feasible is false exactly when that reported daily load *)
(* is above the ceiling: the reported dailyHours and feasible never        *)
(* disagree about the ceiling.                                             *)
C17_FeasibleMatchesReported ==
  call.op = "estimateDailyLoad" =>
    /\ IsRoundedTenth(call.ret.dailyHours, call.arg.studyPath.estimated_total_hours,
                      call.arg.studyPath.time_remaining_days)
    /\ ~call.ret.feasible <=> call.ret.dailyHours > 10 * call.arg.maxDailyHours

(* C17, amended: dailyHours is estimated_total_hours / days rounded to one *)
(* decimal, and feasible is false exactly when the unrounded quotient      *)
(* estimated_total_hours / days is above the ceiling; 90 hours over 30     *)
(* days with ceiling 2 give dailyHours 3.0 and feasible false.             *)
C17_FeasibleMatchesQuotient ==
  call.op = "estimateDailyLoad" =>
    LET totalHours == call.arg.studyPath.estimated_total_hours
        days == call.arg.studyPath.time_remaining_days
    IN /\ IsRoundedTenth(call.ret.dailyHours, totalHours, days)
       /\ ~call.ret.feasible <=> totalHours > call.arg.maxDailyHours * days
       /\ (totalHours = 90 /\ days = 30 /\ call.arg.maxDailyHours = 2)
            => (call.ret.dailyHours = 30 /\ ~call.ret.feasible)

C17_Witness ==
  /\ call.op = "estimateDailyLoad"
  /\ ~call.ret.feasible
  /\ call.ret.dailyHours = 10 * call.arg.maxDailyHours

(***************************************************************************)
(* What the overlay claims speak of: the IDs of a graph's nodes, and the   *)
(* existing nodes among a selection and, when asked for, its transitive    *)
(* prerequisites, less the excluded ones.                                  *)
(***************************************************************************)
NodeIds(g) == Range(MapKeys(g.nodes))

Closure(selection) == selection \cup UNION {Ancestors(RequiresPairs(G), c) : c \in selection}

ExistingIn(S) == {c \in S : MapHas(nodes, c)}

ExamSelection ==
  LET profile == MapGet(profiles, call.arg.examId)
  IN Range(profile.required_concepts)
       \cup (IF call.arg.includeOptional THEN Range(profile.optional_concepts) ELSE {})

ExamSubgraphExact ==
  (call.op = "getExamSubgraph" /\ MapHas(profiles, call.arg.examId)) =>
    LET excluded == Range(MapGet(profiles, call.arg.examId).excluded_concepts)
    IN /\ NodeIds(call.ret) = ExistingIn(Closure(ExamSelection) \ excluded)
       /\ NodeIds(call.ret) \cap excluded = {}

CurriculumSubgraphExact(withPrerequisites) ==
  (/\ call.op = "getCurriculumSubgraph"
   /\ HasMapping(mappings, call.arg.system, call.arg.yearLevel)) =>
    LET mapping == MapGet(mappings, <<call.arg.system, call.arg.yearLevel>>)
        selection == Range(mapping.concepts)
        excluded == Range(mapping.excluded_concepts)
    IN /\ NodeIds(call.ret) =
            ExistingIn((IF withPrerequisites THEN Closure(selection) ELSE selection)
                         \ excluded)
       /\ NodeIds(call.ret) \cap excluded = {}

(* C18, as claimed: for both overlays the nodes of the subgraph returned   *)
(* by getExamSubgraph / getCurriculumSubgraph are exactly the existing     *)
(* nodes among (selection and all its transitive prerequisites) less the   *)
(* excluded set, the selection being the required concepts plus the        *)
(* optional ones when optional ones are included; no excluded concept is a *)
(* node of the result.                                                     *)
C18_OverlayClosureAlways == ExamSubgraphExact /\ CurriculumSubgraphExact(TRUE)

(* C18, amended: getExamSubgraph is as claimed; getCurriculumSubgraph      *)
(* selects the required concepts only and adds their transitive            *)
(* prerequisites only when includePrerequisites is true (the default);     *)
(* no excluded concept is a node of either result.                         *)
C18_OverlayClosure ==
  /\ ExamSubgraphExact
  /\ call.op = "getCurriculumSubgraph" => CurriculumSubgraphExact(call.arg.includePrerequisites)

C18_Witness ==
  /\ call.op = "getCurriculumSubgraph"
  /\ HasMapping(mappings, call.arg.system, call.arg.yearLevel)
  /\ call.arg.includePrerequisites
  /\ call.ret.nodes # <<>>
  /\ \E c \in Range(MapGet(mappings, <<call.arg.system, call.arg.yearLevel>>).excluded_concepts) :
       /\ MapHas(nodes, c)
       /\ c \in Closure(Range(MapGet(mappings,
                                      <<call.arg.system, call.arg.yearLevel>>).concepts))

(***************************************************************************)
(* The node set and the edge multiset of the graph.                        *)
(***************************************************************************)
EdgeBag(es) == BagOf(Flat(MapValues(es)))

GraphKept == Range(nodes') = Range(nodes) /\ EdgeBag(edges') = EdgeBag(edges)

(* C19: no operation other than addNode and addEdge changes the graph's    *)
(* node set or edge multiset: every graph query and every overlay,         *)
(* diagnostics and planner operation leaves the graph it reads unchanged.  *)
C19_OnlyAddsChangeGraph ==
  [][\/ \E node \in OverlayNodes : AddNode(node)
     \/ \E edge \in OverlayEdges : AddEdge(edge)
     \/ GraphKept]_vars

C19_Witness ==
  /\ call.op = "identifyCriticalPath"
  /\ call.ret.totalPrerequisites = 2
  /\ call.ret.depth = 2
  /\ Len(nodes) = 2

(***************************************************************************)
(* A lookup that misses: what each returns, for an ID the graph has no     *)
(* node for (and, where asked, no edge either), an exam without profile, a *)
(* year without mapping, a pair without progress record.                   *)
(***************************************************************************)
Unknown(id) == \A e \in AllEdges(G) : e.from # id /\ e.to # id

NodeMiss(edgeless) ==
  /\ (call.op = "getNode" /\ ~MapHas(nodes, call.arg)) => call.ret = "undefined"
  /\ (/\ call.op \in {"getPrerequisites", "getDependents", "getAllPrerequisites"}
      /\ ~MapHas(nodes, call.arg)
      /\ edgeless => Unknown(call.arg)) => call.ret = <<>>

ProfileMiss ==
  (call.op \in {"getExamSubgraph", "getStudyPlan", "estimateExamReadiness",
                "generateExamStudyPath"}
     /\ ~MapHas(profiles, call.arg.examId)) =>
    /\ call.op = "getExamSubgraph" => call.ret = NewGraph
    /\ call.op = "getStudyPlan" =>
         /\ call.ret.ordered = <<>> /\ call.ret.required = <<>>
         /\ call.ret.optional = <<>> /\ call.ret.gaps = <<>>
         /\ call.ret.totalConcepts = 0
    /\ call.op = "estimateExamReadiness" =>
         call.ret.requiredCoverage = 0 /\ call.ret.optionalCoverage = 0
    /\ call.op = "generateExamStudyPath" => call.ret = "null"

MappingMiss ==
  (call.op \in {"getCurriculumSubgraph", "generateCurriculumStudyPath"}
     /\ ~HasMapping(mappings, call.arg.system, call.arg.yearLevel)) =>
    /\ call.op = "getCurriculumSubgraph" => call.ret = NewGraph
    /\ call.op = "generateCurriculumStudyPath" => call.ret = "null"

ProgressMiss ==
  (call.op \in {"getProgress", "getConfidence"}
     /\ ~HasProgress(progress, call.arg.userId, call.arg.conceptId)) =>
    /\ call.op = "getProgress" => call.ret = "null"
    /\ call.op = "getConfidence" => call.ret = 0

LookupOps ==
  {"getNode", "getPrerequisites", "getDependents", "getAllPrerequisites",
   "getExamSubgraph", "getCurriculumSubgraph", "getStudyPlan", "estimateExamReadiness",
   "generateExamStudyPath", "generateCurriculumStudyPath", "getProgress", "getConfidence"}

LookupKeepsState ==
  (call' # call /\ call'.op \in LookupOps) =>
    UNCHANGED <<nodes, edges, reverseEdges, progress, profiles, mappings>>

(* C20, as claimed: a lookup for a nonexistent node, exam profile,         *)
(* curriculum mapping or progress record leaves all state unchanged and    *)
(* returns an empty, null or zero result: getNode undefined,               *)
(* getPrerequisites / getDependents an empty list, getAllPrerequisites an  *)
(* empty set, getExamSubgraph / getCurriculumSubgraph an empty graph,      *)
(* getStudyPlan empty lists and totalConcepts 0, estimateExamReadiness     *)
(* zero coverage, generateExamStudyPath / generateCurriculumStudyPath      *)
(* null, getProgress null and getConfidence 0.                             *)
C20_SilentMissAnyId ==
  /\ [](NodeMiss(FALSE) /\ ProfileMiss /\ MappingMiss /\ ProgressMiss)
  /\ [][LookupKeepsState]_vars

(* C20, amended: the same, where for getPrerequisites, getDependents and   *)
(* getAllPrerequisites the ID has no node and is no endpoint of an edge.   *)
C20_SilentMiss ==
  /\ [](NodeMiss(TRUE) /\ ProfileMiss /\ MappingMiss /\ ProgressMiss)
  /\ [][LookupKeepsState]_vars

C20_Witness ==
  /\ call.op = "getAllPrerequisites"
  /\ ~MapHas(nodes, call.arg)
  /\ Unknown(call.arg)
  /\ edges # <<>>
  /\ profiles # <<>>

(***************************************************************************)
(* What the validation claim speaks of: the error conditions of the loaded *)
(* data. records are the input records in reading order, loaded the node   *)
(* records the graph holds.                                                *)
(***************************************************************************)
RequiresRefs(loaded) ==
  UNION {{<<p, n.id>> : p \in Range(n.requires)} : n \in loaded}

ErrorCondition(records, loaded) ==
  \/ HasCycle(RequiresRefs(loaded))
  \/ ~NoRepeat([i \in 1..Len(records) |-> records[i].id])
  \/ \E n \in loaded : \E p \in Range(n.requires) : \A m \in loaded : m.id # p
  \/ \E n \in loaded : n.complexity < 0 \/ n.complexity > 10
  \/ \E n \in loaded : n.title = <<>> \/ \A i \in 1..Len(n.title) : n.title[i] = " "

(* C21: the validation pass over the loaded node records reports at least  *)
(* one error and valid = false exactly when the data shows an error        *)
(* condition: a cycle among the requires references, a node ID that occurs *)
(* twice among the input records, a reference to a missing prerequisite, a *)
(* complexity outside [0,10] or an empty title; with warning conditions    *)
(* only (empty description, no domains, orphaned node) it reports valid.   *)
C21_ErrorsExactly ==
  call.op = "validate" =>
    LET bad == ErrorCondition(Flat(call.arg), Range(MapValues(nodes)))
    IN /\ ~call.ret.valid <=> bad
       /\ Len(call.ret.errors) >= 1 <=> bad
       /\ (~bad /\ call.ret.warnings # <<>>) => call.ret.valid


(***************************************************************************)
(* What the snapshot claim speaks of: a record of progress' against one of *)
(* progress or an imported one.                                            *)
(***************************************************************************)
RecordIs(p, userId, conceptId, record) ==
  HasProgress(p, userId, conceptId) /\ MapGet(MapGet(p, userId), conceptId) = record

RecordKept(userId, conceptId) ==
  /\ HasProgress(progress', userId, conceptId) <=> HasProgress(progress, userId, conceptId)
  /\ HasProgress(progress, userId, conceptId) =>
       RecordIs(progress', userId, conceptId, MapGet(MapGet(progress, userId), conceptId))

OthersKept(userId, json) ==
  /\ \A c \in Ids \ {json[i].concept_id : i \in 1..Len(json)} : RecordKept(userId, c)
  /\ \A u \in ProgressUsers \ {userId} : \A c \in Ids : RecordKept(u, c)

IsLast(json, i) == \A j \in (i + 1)..Len(json) : json[j].concept_id # json[i].concept_id

Imports == call = Idle /\ call'.op = "importProgress"

Restores == call.op = "exportProgress" /\ call'.op = "importProgress"

RoundTrip ==
  Restores =>
    /\ Range(getUserProgress(progress', call.arg)) = Range(getUserProgress(progress, call.arg))
    /\ Len(getUserProgress(progress', call.arg)) = Len(getUserProgress(progress, call.arg))

(* C22, as claimed: after importProgress(u, records) the record of u for   *)
(* the concept of each imported record is exactly that imported record,    *)
(* the records of u for concepts absent from the import and the records of *)
(* other users are unchanged, and exportProgress(u) imported into a fresh  *)
(* engine gives the same set of records for u.                             *)
C22_ImportOverwritesEach ==
  /\ [][Imports =>
          /\ \A i \in 1..Len(call'.arg.json) :
               RecordIs(progress', call'.arg.userId, call'.arg.json[i].concept_id,
                        call'.arg.json[i])
          /\ OthersKept(call'.arg.userId, call'.arg.json)]_vars
  /\ [][RoundTrip]_vars

(* C22, amended: the same, where the record of u for a concept becomes the *)
(* last imported record with that concept ID; review count and time are    *)
(* replaced, not added.                                                    *)
C22_ImportOverwritesLast ==
  /\ [][Imports =>
          /\ \A i \in 1..Len(call'.arg.json) :
               IsLast(call'.arg.json, i) =>
                 RecordIs(progress', call'.arg.userId, call'.arg.json[i].concept_id,
                          call'.arg.json[i])
          /\ OthersKept(call'.arg.userId, call'.arg.json)]_vars
  /\ [][RoundTrip]_vars

C22_Witness ==
  /\ call.op = "importProgress"
  /\ call.arg.json = exportProgress(progress, call.arg.userId)
  /\ \E r1, r2 \in Range(getUserProgress(progress, call.arg.userId)) :
       /\ r1.last_reviewed = 1 /\ r1.review_count = 3
       /\ r2.last_reviewed = 0 /\ r2.review_count = 1


(***************************************************************************)
(* What the ingestion claim speaks of: the records a batch of files holds  *)
(* (the items of each JSON file, the rows below the header of each CSV     *)
(* file) and the malformed ones among them: no object, no title, no ID, a  *)
(* complexity outside [0,10] or a type that has no directory.              *)
(***************************************************************************)
Readable(file) == file.exists /\ file.ext \in {".json", ".csv"}

RecordsIn(file) ==
  IF ~Readable(file) THEN <<>>
  ELSE IF file.ext = ".json" THEN (IF file.parses THEN file.data ELSE <<>>)
  ELSE LET lines == NonBlankLines(file.lines)
       IN IF lines = <<>> THEN <<>> ELSE [i \in 1..(Len(lines) - 1) |-> NodeOfRow(RowsOf(lines)[i])]

Malformed(file, record) ==
  \/ IsNull(record)
  \/ LET node == IF file.ext = ".json" THEN NodeOfData(record) ELSE record
     IN \/ node.title = <<>> \/ \A i \in 1..Len(node.title) : node.title[i] = " "
        \/ node.id = <<>>
        \/ ~node.complexity.nan /\ (node.complexity.value < 0 \/ node.complexity.value > 10)
        \/ node.type \notin {<<t>> : t \in NodeTypes}

RECURSIVE RecordCount(_, _)
RecordCount(files, malformedOnly) ==
  IF files = <<>> THEN 0
  ELSE LET file == Head(files)
           records == RecordsIn(file)
       IN Cardinality({i \in 1..Len(records) : malformedOnly => Malformed(file, records[i])})
            + RecordCount(Tail(files), malformedOnly)

(* C23: in an ingestion run over a batch of files no malformed record (bad *)
(* row, bad JSON, failed validation, failed save) ends the run: after      *)
(* every record totalProcessed = successful + failed, and when the run is  *)
(* over every record of the batch has been processed, the malformed ones   *)
(* counted as failed and the others as successful.                         *)
C23_BadRecordNeverAborts ==
  /\ ingestion.status # "crashed"
  /\ ingestion.stats.totalProcessed = ingestion.stats.successful + ingestion.stats.failed
  /\ ingestion.status = "done" =>
       /\ ingestion.stats.totalProcessed = RecordCount(ingestion.args, FALSE)
       /\ ingestion.stats.failed = RecordCount(ingestion.args, TRUE)


(* C24: a call of identifyCriticalPath returns, for every graph and every  *)
(* target list, also when a REQUIRES cycle is reachable backwards from a   *)
(* target.                                                                 *)
C24_CriticalPathTerminates == critical.active ~> ~critical.active

(* C25: in ordered_concepts of generateStudyPath every concept comes after *)
(* each of its transitive REQUIRES prerequisites that is also listed. The  *)
(* code sorts by the REQUIRES edges between listed concepts only, so this  *)
(* holds when the chain between the two runs through listed concepts       *)
(* (C25_ChainInsideOrdered), and not for every chain                       *)
(* (C25_TransitiveOrder).                                                  *)
OrderedAlong(R, ordered) ==
  \A y \in Range(ordered) :
    \A x \in (Ancestors(R, y) \cap Range(ordered)) \ {y} :
      IndexOf(ordered, x) < IndexOf(ordered, y)

C25_TransitiveOrder ==
  call.op = "generateStudyPath" =>
    OrderedAlong(RequiresPairs(G), call.ret.ordered_concepts)

C25_ChainInsideOrdered ==
  call.op = "generateStudyPath" =>
    OrderedAlong(Within(RequiresPairs(G), Range(call.ret.ordered_concepts)),
                 call.ret.ordered_concepts)

C25_Witness ==
  /\ call.op = "generateStudyPath"
  /\ LET ordered == call.ret.ordered_concepts
         R == Within(RequiresPairs(G), Range(ordered))
     IN \E y \in Range(ordered) : \E x \in Ancestors(R, y) \ {y} : <<x, y>> \notin R

(* C26: the set of ordered_concepts of generateStudyPath is missing \cup   *)
(* weak of detectGaps, every concept of the gaps field is in               *)
(* ordered_concepts, and confidence_map has an entry for each. The sort    *)
(* leaves out what is on or behind a REQUIRES cycle of the study set, so   *)
(* this holds when the study set has no such cycle                         *)
(* (C26_PathCoversSortableGaps), and not for every graph                   *)
(* (C26_PathCoversGaps).                                                   *)
StudySet == {c \in Required(G, call.arg.targetConcepts) :
               Conf(call.arg.userId, c) < DefaultThreshold}

MissingSet == {c \in Required(G, call.arg.targetConcepts) : Conf(call.arg.userId, c) = 0}

C26_PathCoversGaps ==
  call.op = "generateStudyPath" =>
    /\ Range(call.ret.ordered_concepts) = StudySet
    /\ Range(call.ret.gaps) \subseteq Range(call.ret.ordered_concepts)
    /\ \A c \in StudySet : MapHas(call.ret.confidence_map, c)

C26_PathCoversSortableGaps ==
  call.op = "generateStudyPath" =>
    LET S == StudySet
        listed == Range(call.ret.ordered_concepts)
    IN /\ Range(call.ret.gaps) = {c \in S : Conf(call.arg.userId, c) = 0}
       /\ Range(MapKeys(call.ret.confidence_map)) = listed
       /\ IF HasCycle(Within(RequiresPairs(G), S))
          THEN listed = Sortable(G, S)
          ELSE listed = S /\ Range(call.ret.gaps) \subseteq listed

C26_Witness ==
  /\ call.op = "generateStudyPath"
  /\ ~HasCycle(Within(RequiresPairs(G), StudySet))
  /\ call.ret.gaps # <<>>
  /\ StudySet \ MissingSet # {}
  /\ Range(call.ret.ordered_concepts) = StudySet

(* C27: neither the ordered list of ExamEngine.getStudyPlan nor the        *)
(* ordered_concepts of StudyPlanner.generateExamStudyPath holds a concept  *)
(* of the exam profile's excluded_concepts, whatever the profile, the      *)
(* graph and the user's progress.                                          *)
ExcludedOf(examId) == Range(getProfile(profiles, examId).excluded_concepts)

C27_ExcludedNeverStudied ==
  /\ (call.op = "getStudyPlan" /\ MapHas(profiles, call.arg.examId)) =>
       Range(call.ret.ordered) \cap ExcludedOf(call.arg.examId) = {}
  /\ (call.op = "generateExamStudyPath" /\ MapHas(profiles, call.arg.examId)) =>
       Range(call.ret.ordered_concepts) \cap ExcludedOf(call.arg.examId) = {}


(* C28: in an acyclic graph, with confidences from 0 to 1,                 *)
(* recommendNextConcepts with a limit of 1 or more never returns an empty  *)
(* list while ordered_concepts of generateStudyPath for the same targets   *)
(* is not empty, and a learner who keeps raising a recommended concept to  *)
(* 0.7 or more comes to an empty study path.                               *)
PathOf(userId, targetConcepts) ==
  generateStudyPath(progress, userId, G, targetConcepts, RecommendDays).ordered_concepts

SomethingRecommended ==
  (/\ call.op = "recommendNextConcepts"
   /\ call.arg.limit >= 1
   /\ ~HasCycle(RequiresPairs(G))
   /\ PathOf(call.arg.userId, call.arg.targetConcepts) # <<>>) => call.ret # <<>>

PathEmpty ==
  learner.phase = "done" /\ PathOf(learner.userId, learner.targetConcepts) = <<>>

C28_LearnerFinishes ==
  /\ []SomethingRecommended
  /\ (learner.phase = "ask") ~> PathEmpty

C28_Witness ==
  /\ PathEmpty
  /\ Len(learner.studied) >= 2
  /\ \E c \in Range(learner.studied) : UpdatesOf(updates, learner.userId, c)[1].confidence = 5

(* C29: in an acyclic graph the depth returned by identifyCriticalPath is  *)
(* the greatest number of REQUIRES edges on a prerequisite chain ending at *)
(* a target, 0 when no target has a prerequisite, and totalPrerequisites   *)
(* is the size of the union of the targets' transitive prerequisite sets.  *)
MaxOf(S) == IF S = {} THEN 0 ELSE CHOOSE m \in S : \A n \in S : n <= m

RECURSIVE LongestChain(_, _)
LongestChain(R, n) ==
  IF Back(R, {n}) = {} THEN 0
  ELSE 1 + MaxOf({LongestChain(R, p) : p \in Back(R, {n})})

ListedUnder(index, end) ==
  \A i \in 1..Len(index) : \A e \in Range(index[i].v) :
    IF end = "from" THEN e.from = index[i].k ELSE e.to = index[i].k

IndexesAgree ==
  /\ BagOf(Flat(MapValues(edges))) = BagOf(Flat(MapValues(reverseEdges)))
  /\ ListedUnder(edges, "from")
  /\ ListedUnder(reverseEdges, "to")
  /\ \A a, b \in Ids :
       Includes(getDependents(G, a), b) <=> Includes(getPrerequisites(G, b), a)

IdsUnique ==
  /\ NoRepeat(MapKeys(nodes))
  /\ NoRepeat(MapKeys(edges))
  /\ NoRepeat(MapKeys(reverseEdges))
  /\ \A i \in 1..Len(nodes) : nodes[i].v.id = nodes[i].k

ReplacesRecord ==
  (call.op = "getNode" /\ call'.op = "addNode") =>
    /\ edges' = edges
    /\ reverseEdges' = reverseEdges
    /\ MapKeys(nodes') = MapKeys(nodes)
    /\ \A i \in 1..Len(nodes) :
         nodes'[i].v = IF nodes[i].k = call'.arg.id THEN call'.arg ELSE nodes[i].v

C30_IndexesConsistent == [](IndexesAgree /\ IdsUnique) /\ [][ReplacesRecord]_vars

C30_Witness ==
  /\ call.op = "addNode"
  /\ call.was # call.arg
  /\ getNode(G, call.arg.id) = call.arg
  /\ \E e \in Range(getOutgoingEdges(G, call.arg.id)) :
       Count(getIncomingEdges(G, e.to), e) > 1

====
